---- MODULE Spec2Model ----
(***************************************************************************)
(* Text extraction and chunking engine of oreilly-ingest.                  *)
(*   core/text_extractor.py : _HTMLTextExtractor, TextExtractor            *)
(*   plugins/chunking.py    : ChunkingPlugin                               *)
(* Strings are sequences of one-character strings; offsets are Python's    *)
(* 0-based offsets, so the character at offset k of s is s[k + 1].         *)
(***************************************************************************)
EXTENDS Integers, Sequences, FiniteSets, TLC

\* ------------------------------------------------------------------ bounds
\* Number of segments a short input text is assembled from.
MaxSegs == 3
\* chunk_size ranges over 1..MaxChunkSize, overlap over 0..MaxOverlap.
MaxChunkSize == 2
MaxOverlap == 1
\* Length of the filler run of the long input texts, and their chunk_size.
LongRun == 255
LongChunk == 65

\* ------------------------------------------------------- program constants
\* search_window default of _find_break_point.
SEARCH_WINDOW == 500
\* text.rfind(" ", window_start, target_pos + 50)
SPACE_LOOKAHEAD == 50
\* estimated_chars = token_count * 4
CHARS_PER_TOKEN == 4

\* ------------------------------------------------------------ str helpers
Min(a, b) == IF a < b THEN a ELSE b
Max(a, b) == IF a > b THEN a ELSE b

\* Characters Python's str.strip/str.split and the regex class \s treat as space.
WS == {" ", "\n", "\t"}
IsSpace(c) == c \in WS

\* The sentence punctuation of SENTENCE_ENDINGS = [.!?]\s+
PUNCT == {".", "!", "?"}

Fill(c, n) == [i \in 1..n |-> c]

\* Python's s[a:b] for integers a, b (negative indices count from the end).
PyIndex(i, n) == IF i < 0 THEN Max(i + n, 0) ELSE Min(i, n)
PySlice(s, a, b) == SubSeq(s, PyIndex(a, Len(s)) + 1, PyIndex(b, Len(s)))

\* str.strip()
Strip(s) ==
    LET ink == {i \in 1..Len(s) : ~IsSpace(s[i])}
    IN  IF ink = {} THEN <<>>
        ELSE SubSeq(s, CHOOSE i \in ink : \A j \in ink : i <= j,
                       CHOOSE i \in ink : \A j \in ink : i >= j)

\* len(s.split())
WordCount(s) ==
    Cardinality({i \in 1..Len(s) : ~IsSpace(s[i]) /\ (i = 1 \/ IsSpace(s[i - 1]))})

SetMin(S) == CHOOSE x \in S : \A y \in S : x <= y
SetMax(S) == CHOOSE x \in S : \A y \in S : x >= y

\* ----------------------------------------------------------- token oracle
\* How a ChunkingPlugin is wired to a token oracle. "no_kernel": the plugin
\* was never registered (kernel is None); "words": the kernel has no "token"
\* plugin; the others have one, whose count_tokens counts len(text)//4
\* ("len4"), one token per character ("chars"), three tokens per character
\* ("bytes": a byte-level tokenizer on 3-byte characters), or raises ("raises").
Oracles == {"len4", "words", "chars", "bytes", "no_kernel", "raises"}

\* The wirings under which the try block of _get_token_count raises.
FailingWirings == {"no_kernel", "raises"}

\* self.kernel.get raises AttributeError when kernel is None.
KernelGetRaises(orc) == orc = "no_kernel"

\* token_plugin = self.kernel.get("token") is a plugin (truthy).
HasTokenPlugin(orc) == orc \notin {"no_kernel", "words"}

\* token_plugin.count_tokens(text) raises.
CountTokensRaises(orc) == orc = "raises"

\* token_plugin.count_tokens(text)
CountTokens(orc, s) ==
    CASE orc = "len4"  -> Len(s) \div 4
      [] orc = "chars" -> Len(s)
      [] orc = "bytes" -> 3 * Len(s)
      [] OTHER         -> 0

\* int(len(text.split()) * 1.3)
FallbackCount(s) == (13 * WordCount(s)) \div 10

\* _get_token_count: the plugin's count, or the fallback when there is no
\* plugin or the try block raised.
GetTokenCountZeroOnError(orc, s) ==
    IF KernelGetRaises(orc) THEN 0
    ELSE IF HasTokenPlugin(orc)
    THEN IF CountTokensRaises(orc) THEN 0 ELSE CountTokens(orc, s)
    ELSE FallbackCount(s)
GetTokenCount(orc, s) ==
    IF KernelGetRaises(orc) THEN FallbackCount(s)
    ELSE IF HasTokenPlugin(orc)
    THEN IF CountTokensRaises(orc) THEN FallbackCount(s) ELSE CountTokens(orc, s)
    ELSE FallbackCount(s)

\* -------------------------------------------------------- float arithmetic
\* Python's float is IEEE 754 binary64: 53 significant bits, round to nearest,
\* ties to even. A float is kept as its significand, five limbs of 13 bits
\* with the most significant first (the first limb is the leading bit), and
\* the power of two that scales it:
\*     (sig[1] * LIMB^4 + sig[2] * LIMB^3 + ... + sig[5]) * 2^exp.
\* The limbs keep every product below 2^31: the operators are exact for
\* integers below 2^13 (and divisors below 2^17), which the budgets of the
\* model stay under.
MANTISSA_BITS == 53
LIMB_BITS == 13
LIMB == 2^LIMB_BITS

\* Limbs that reached LIMB or more pass their excess to the limb before.
Carry(sig) ==
    LET v5 == sig[5]
        v4 == sig[4] + v5 \div LIMB
        v3 == sig[3] + v4 \div LIMB
        v2 == sig[2] + v3 \div LIMB
        v1 == sig[1] + v2 \div LIMB
    IN  <<v1, v2 % LIMB, v3 % LIMB, v4 % LIMB, v5 % LIMB>>

\* n / a for integers n >= 0, a >= 1, rounded to a float: long division,
\* thirteen quotient bits at a time, then the rounding of the remainder.
FloatDivide(n, a) ==
    IF n = 0 THEN [sig |-> <<0, 0, 0, 0, 0>>, exp |-> 0]
    ELSE LET up == IF n >= a THEN SetMax({k \in 0..LIMB_BITS : 2^k <= n \div a}) ELSE 0
             down == IF n >= a THEN 0
                     ELSE SetMin({k \in 1..(LIMB_BITS + 4) : 2^k >= (a + n - 1) \div n})
             num == n * 2^down
             den == a * 2^up
             t2 == (num - den) * LIMB
             t3 == (t2 % den) * LIMB
             t4 == (t3 % den) * LIMB
             t5 == (t4 % den) * LIMB
             rem == t5 % den
             round_up == \/ 2 * rem > den
                         \/ 2 * rem = den /\ (t5 \div den) % 2 = 1
         IN  [sig |-> Carry(<<1, t2 \div den, t3 \div den, t4 \div den,
                              t5 \div den + (IF round_up THEN 1 ELSE 0)>>),
              exp |-> up - down - (MANTISSA_BITS - 1)]

\* m * f for an integer m >= 1 and a float f, rounded to a float: the exact
\* product, then the bits beyond the 53rd rounded away.
FloatTimesInt(m, f) ==
    LET p == Carry([i \in 1..5 |-> m * f.sig[i]])
        dropped == SetMin({k \in 0..LIMB_BITS : p[1] < 2^(k + 1)})
        cut == 2^dropped
        q == [i \in 1..5 |->
                 p[i] \div cut + (IF i = 1 THEN 0 ELSE (p[i - 1] % cut) * (LIMB \div cut))]
        rem == p[5] % cut
        round_up == /\ dropped > 0
                    /\ \/ 2 * rem > cut
                       \/ 2 * rem = cut /\ q[5] % 2 = 1
    IN  IF f.sig[1] = 0 THEN f
        ELSE [sig |-> Carry([q EXCEPT ![5] = @ + (IF round_up THEN 1 ELSE 0)]),
              exp |-> f.exp + dropped]

RECURSIVE LimbsToNat(_)
LimbsToNat(limbs) ==
    IF limbs = <<>> THEN 0
    ELSE LIMB * LimbsToNat(SubSeq(limbs, 1, Len(limbs) - 1)) + limbs[Len(limbs)]

\* int(f): the float truncated to an integer.
FloatToInt(f) ==
    LET whole == (-f.exp) \div LIMB_BITS
        part == (-f.exp) % LIMB_BITS
    IN  IF f.exp >= 0 THEN LimbsToNat(f.sig) * 2^f.exp
        ELSE IF whole >= 5 THEN 0
        ELSE LimbsToNat(SubSeq(f.sig, 1, 4 - whole)) * (LIMB \div 2^part)
                 + f.sig[5 - whole] \div 2^part

\* int(estimated_chars * ratio) with ratio = token_count / divisor
ScaledChars(estimated_chars, token_count, divisor) ==
    FloatToInt(FloatTimesInt(estimated_chars, FloatDivide(token_count, divisor)))
\* The exact quotient rounded down, with no float in between.
ScaledCharsExact(estimated_chars, token_count, divisor) ==
    (estimated_chars * token_count) \div divisor

\* ------------------------------------------------ _estimate_char_position
\* The two float comparisons are actual < 0.8*n and actual > 1.2*n; the
\* rescaled budget is int(estimated_chars * (n / actual)).
EstimateThreeCharsPerToken(txt, from, token_count, orc) ==
    LET estimated_chars == token_count * 3
        target == from + estimated_chars
        actual_tokens == GetTokenCount(orc, PySlice(txt, from, target))
        rescaled == from + ScaledChars(estimated_chars, token_count, Max(actual_tokens, 1))
    IN  IF target >= Len(txt) THEN Len(txt)
        ELSE IF 10 * actual_tokens < 8 * token_count THEN Min(rescaled, Len(txt))
        ELSE IF 10 * actual_tokens > 12 * token_count THEN Min(rescaled, Len(txt))
        ELSE Min(target, Len(txt))
EstimateNoRescale(txt, from, token_count, orc) ==
    Min(from + token_count * CHARS_PER_TOKEN, Len(txt))
EstimateCharPosition(txt, from, token_count, orc) ==
    LET estimated_chars == token_count * CHARS_PER_TOKEN
        target == from + estimated_chars
        actual_tokens == GetTokenCount(orc, PySlice(txt, from, target))
        rescaled == from + ScaledChars(estimated_chars, token_count, Max(actual_tokens, 1))
    IN  IF target >= Len(txt) THEN Len(txt)
        ELSE IF 10 * actual_tokens < 8 * token_count THEN Min(rescaled, Len(txt))
        ELSE IF 10 * actual_tokens > 12 * token_count THEN Min(rescaled, Len(txt))
        ELSE Min(target, Len(txt))

\* token_count / actual_tokens divides by zero: ZeroDivisionError.
EstimateRaises(txt, from, token_count, orc) ==
    LET target == from + token_count * CHARS_PER_TOKEN
        actual_tokens == GetTokenCount(orc, PySlice(txt, from, target))
    IN  /\ target < Len(txt)
        /\ ~(10 * actual_tokens < 8 * token_count)
        /\ 10 * actual_tokens > 12 * token_count
        /\ actual_tokens = 0

\* ------------------------------------------------------ _find_break_point
\* End offsets of the matches of PARAGRAPH_BREAK = \n\n+ in txt[ws:we]: the
\* ends of the maximal runs of two or more newlines of the window.
ParagraphEnds(txt, ws, we) ==
    {e \in (ws + 2)..we :
        /\ txt[e] = "\n" /\ txt[e - 1] = "\n"
        /\ (e = we \/ txt[e + 1] # "\n")}

\* End offsets of the matches of SENTENCE_ENDINGS = [.!?]\s+ in txt[ws:we].
SentenceEnds(txt, ws, we) ==
    {e \in (ws + 2)..we :
        /\ IsSpace(txt[e])
        /\ (e = we \/ ~IsSpace(txt[e + 1]))
        /\ \E i \in ws..(e - 2) :
              /\ txt[i + 1] \in PUNCT
              /\ \A k \in (i + 2)..e : IsSpace(txt[k])}

\* text.rfind(" ", lo, hi): the last offset in [lo, hi) holding a space, or -1.
RFindSpace(txt, lo, hi) ==
    LET at == {k \in PyIndex(lo, Len(txt))..(PyIndex(hi, Len(txt)) - 1) : txt[k + 1] = " "}
    IN  IF at = {} THEN -1 ELSE SetMax(at)

FindBreakPoint(txt, target_pos, search_window) ==
    LET window_start == Max(0, target_pos - search_window)
        window_end == Min(Len(txt), target_pos + search_window \div 2)
        paragraphs == {e \in ParagraphEnds(txt, window_start, window_end) :
                          window_start + search_window \div 2 <= e /\ e <= window_end}
        sentences == {e \in SentenceEnds(txt, window_start, window_end) :
                          e <= target_pos + search_window \div 4}
        space_pos == RFindSpace(txt, window_start, target_pos + SPACE_LOOKAHEAD)
    IN  IF paragraphs # {} THEN SetMin(paragraphs)
        ELSE IF sentences # {} THEN SetMax(sentences)
        ELSE IF space_pos > window_start THEN space_pos + 1
        ELSE target_pos

\* ------------------------------------------------------------- chunk_text
\* One pass of the body of "while start < text_len", split at its statements.

\* target_end = min(_estimate_char_position(text, start, chunk_size), text_len)
TargetEnd(txt, from, size, orc) ==
    Min(EstimateCharPosition(txt, from, size, orc), Len(txt))

\* The end of the slice: the break point when boundaries are respected and the
\* raw cut is inside the text, the raw cut when that is not after start.
ResolveEndAlwaysSearch(txt, from, target_end, respect) ==
    LET found == IF target_end < Len(txt)
                 THEN FindBreakPoint(txt, target_end, SEARCH_WINDOW)
                 ELSE target_end
    IN  IF found <= from THEN target_end ELSE found
ResolveEndNoFallback(txt, from, target_end, respect) ==
    IF respect /\ target_end < Len(txt)
    THEN FindBreakPoint(txt, target_end, SEARCH_WINDOW)
    ELSE target_end
ResolveEnd(txt, from, target_end, respect) ==
    LET found == IF respect /\ target_end < Len(txt)
                 THEN FindBreakPoint(txt, target_end, SEARCH_WINDOW)
                 ELSE target_end
    IN  IF found <= from THEN target_end ELSE found

\* chunk_text = text[start:end].strip()
ChunkContentUntrimmed(txt, from, to) == PySlice(txt, from, to)
ChunkContent(txt, from, to) == Strip(PySlice(txt, from, to))

ChunkRecordCountsSlice(txt, from, to, orc) ==
    [content      |-> ChunkContent(txt, from, to),
     token_count  |-> GetTokenCount(orc, PySlice(txt, from, to)),
     start_offset |-> from,
     end_offset   |-> to]
ChunkRecord(txt, from, to, orc) ==
    [content      |-> ChunkContent(txt, from, to),
     token_count  |-> GetTokenCount(orc, ChunkContent(txt, from, to)),
     start_offset |-> from,
     end_offset   |-> to]

\* overlap_chars = _estimate_char_position(text, end - overlap * 4, overlap) if overlap > 0 else 0
OverlapChars(txt, to, ovl, orc) ==
    IF ovl > 0 THEN EstimateCharPosition(txt, to - ovl * CHARS_PER_TOKEN, ovl, orc) ELSE 0

\* next_start = end - min(overlap_chars, end - start - 1)
NextStartInclusiveEnd(from, to, overlap_chars) ==
    to + 1 - Min(overlap_chars, to - from - 1)
NextStart(from, to, overlap_chars) == to - Min(overlap_chars, to - from - 1)

\* start = max(next_start, start + 1)
AdvanceCursor(next_start, from) == Max(next_start, from + 1)

\* The cursor after a slice [from, to): the two statements above.
CursorAfterNaive(from, to, overlap_chars) == to - overlap_chars
CursorAfter(from, to, overlap_chars) ==
    AdvanceCursor(NextStart(from, to, overlap_chars), from)

VARIABLES
    text,                \* chunk_text argument: the text
    chunk_size,          \* chunk_text argument
    overlap,             \* chunk_text argument
    respect_boundaries,  \* chunk_text argument
    oracle,              \* which token oracle _get_token_count reaches
    pc,                  \* "call", "loop", "done" or "raised"
    start,               \* the cursor
    end,                 \* end of the slice handled last
    chunks,              \* the list being returned
    iters                \* loop iterations completed

chunkVars == <<text, chunk_size, overlap, respect_boundaries, oracle,
               pc, start, end, chunks, iters>>

\* ----------------------------------------------------------- input texts
Segs == { <<"a">>, <<"a", "a", "a">>, <<" ">>, <<" ", " ", " ", " ">>,
          <<".", " ">>, <<"\n", "\n">> }

RECURSIVE SegTexts(_)
SegTexts(n) ==
    IF n = 0 THEN {<<>>}
    ELSE LET shorter == SegTexts(n - 1)
         IN  shorter \cup {t \o s : t \in shorter, s \in Segs}

ShortTexts == SegTexts(MaxSegs)

\* Texts long enough for the 500-character search window to have a second half.
LongTexts ==
    { Fill("a", LongRun) \o <<"\n", "\n">> \o Fill("a", 40),
      Fill("a", LongRun + 7) \o <<"\n", "\n">> \o Fill("a", 40),
      Fill("a", 98) \o <<"\n", "\n">> \o Fill("a", LongRun - 55),
      Fill("a", 100) \o <<".", " ">> \o Fill("a", LongRun)
        \o <<"\n", "\n">> \o Fill("a", 30) \o <<"\n", "\n">> \o Fill("a", LongRun) }

InitChunk ==
    /\ \/ /\ text \in ShortTexts
          /\ chunk_size \in 1..MaxChunkSize
          /\ overlap \in 0..MaxOverlap
          /\ oracle \in Oracles \ FailingWirings
       \/ /\ text \in SegTexts(MaxSegs - 1)
          /\ chunk_size \in 1..MaxChunkSize
          /\ overlap \in 0..MaxOverlap
          /\ oracle \in FailingWirings
       \/ /\ text \in LongTexts
          /\ chunk_size = LongChunk
          /\ overlap = 0
          /\ oracle \in {"len4", "words"}
    /\ respect_boundaries \in BOOLEAN
    /\ pc = "call"
    /\ start = 0
    /\ end = 0
    /\ chunks = <<>>
    /\ iters = 0

\* if not text: return []; chunks = []; start = 0
Call ==
    /\ pc = "call"
    /\ pc' = IF text = <<>> THEN "done" ELSE "loop"
    /\ UNCHANGED <<text, chunk_size, overlap, respect_boundaries, oracle,
                   start, end, chunks, iters>>

\* One iteration of the while loop.
Iterate ==
    /\ pc = "loop"
    /\ start < Len(text)
    /\ LET target_end == TargetEnd(text, start, chunk_size, oracle)
           to == ResolveEnd(text, start, target_end, respect_boundaries)
           overlap_chars == OverlapChars(text, to, overlap, oracle)
           raises == \/ EstimateRaises(text, start, chunk_size, oracle)
                     \/ overlap > 0 /\ EstimateRaises(text, to - overlap * CHARS_PER_TOKEN,
                                                      overlap, oracle)
       IN  IF raises
           THEN /\ pc' = "raised"
                /\ UNCHANGED <<start, end, chunks, iters>>
           ELSE /\ end' = to
                /\ chunks' = IF ChunkContent(text, start, to) # <<>>
                             THEN Append(chunks, ChunkRecord(text, start, to, oracle))
                             ELSE chunks
                /\ start' = CursorAfter(start, to, overlap_chars)
                /\ iters' = iters + 1
                /\ pc' = "loop"
    /\ UNCHANGED <<text, chunk_size, overlap, respect_boundaries, oracle>>

\* The loop condition fails: return chunks.
Return ==
    /\ pc = "loop"
    /\ start >= Len(text)
    /\ pc' = "done"
    /\ UNCHANGED <<text, chunk_size, overlap, respect_boundaries, oracle,
                   start, end, chunks, iters>>

NextChunk == Call \/ Iterate \/ Return

\* ---------------------------------------------------------- str helpers 2
RECURSIVE Join(_)
\* "".join(parts)
Join(parts) == IF parts = <<>> THEN <<>> ELSE Head(parts) \o Join(Tail(parts))

StartsWith(s, prefix) ==
    Len(s) >= Len(prefix) /\ SubSeq(s, 1, Len(prefix)) = prefix

\* needle in s
Contains(s, needle) ==
    \E i \in 0..(Len(s) - Len(needle)) : SubSeq(s, i + 1, i + Len(needle)) = needle

RECURSIVE RemoveAll(_, _)
\* s.replace(needle, ""): every occurrence is removed, left to right.
RemoveAll(s, needle) ==
    IF s = <<>> THEN <<>>
    ELSE IF StartsWith(s, needle) THEN RemoveAll(SubSeq(s, Len(needle) + 1, Len(s)), needle)
    ELSE <<Head(s)>> \o RemoveAll(Tail(s), needle)

UPPER == <<"A", "B", "C", "D", "E", "F", "G", "H", "I", "J", "K", "L", "M",
           "N", "O", "P", "Q", "R", "S", "T", "U", "V", "W", "X", "Y", "Z">>
LOWER == <<"a", "b", "c", "d", "e", "f", "g", "h", "i", "j", "k", "l", "m",
           "n", "o", "p", "q", "r", "s", "t", "u", "v", "w", "x", "y", "z">>
LowerChar(c) ==
    IF \E i \in DOMAIN UPPER : UPPER[i] = c
    THEN LOWER[CHOOSE i \in DOMAIN UPPER : UPPER[i] = c]
    ELSE c
\* s.lower()
Lower(s) == [i \in DOMAIN s |-> LowerChar(s[i])]

RECURSIVE SplitFrom(_, _)
\* The words of s from index i on.
SplitFrom(s, i) ==
    IF i > Len(s) THEN <<>>
    ELSE IF IsSpace(s[i]) THEN SplitFrom(s, i + 1)
    ELSE LET stops == {j \in i..Len(s) : IsSpace(s[j])}
             j == IF stops = {} THEN Len(s) + 1 ELSE SetMin(stops)
         IN  <<SubSeq(s, i, j - 1)>> \o SplitFrom(s, j)
\* s.split()
Split(s) == SplitFrom(s, 1)

\* --------------------------------------------------- _normalize_whitespace
\* The characters of s at the indices where the flags of keep hold, in order.
KeepWhere(s, keep) ==
    LET marked == [i \in DOMAIN s |-> <<s[i], keep[i]>>]
        kept == SelectSeq(marked, LAMBDA m : m[2])
    IN  [i \in DOMAIN kept |-> kept[i][1]]

BLANK == {" ", "\t"}

\* re.sub(r"[ \t]+", " ", text): a run of spaces and tabs becomes one space.
CollapseBlanks(s) ==
    KeepWhere([i \in DOMAIN s |-> IF s[i] \in BLANK THEN " " ELSE s[i]],
              [i \in DOMAIN s |-> ~(s[i] \in BLANK /\ i > 1 /\ s[i - 1] \in BLANK)])

\* re.sub(r"\n{3,}", "\n\n", text): of a run of newlines the first two stay.
CollapseNewlines(s) ==
    KeepWhere(s, [i \in DOMAIN s |->
        ~(s[i] = "\n" /\ i > 2 /\ s[i - 1] = "\n" /\ s[i - 2] = "\n")])

\* re.sub(r"^\s+", "", text, flags=re.MULTILINE): whitespace is removed from
\* the start of a line to the end of its run, newlines included.
StripLineStarts(s) ==
    KeepWhere(s, [i \in DOMAIN s |->
        ~(/\ IsSpace(s[i])
          /\ \E b \in 1..i : /\ b = 1 \/ s[b - 1] = "\n"
                             /\ \A k \in b..i : IsSpace(s[k]))])

\* re.sub(r"\s+$", "", text, flags=re.MULTILINE): whitespace is removed when,
\* later in its run, a line ends (before a newline, or at the end of the text).
StripLineEnds(s) ==
    KeepWhere(s, [i \in DOMAIN s |->
        ~(/\ IsSpace(s[i])
          /\ \E k \in (i + 1)..(Len(s) + 1) :
                /\ k = Len(s) + 1 \/ s[k] = "\n"
                /\ \A m \in i..(k - 1) : IsSpace(s[m]))])

NormalizeWhitespace(s) == Strip(StripLineEnds(StripLineStarts(CollapseNewlines(CollapseBlanks(s)))))

\* ------------------------------------------------------ _HTMLTextExtractor
BLOCK_TAGS == {"p", "div", "br", "h1", "h2", "h3", "h4", "h5", "h6", "li", "tr",
               "blockquote", "section", "article", "header", "footer"}

\* len(code) < 100 renders a standalone <code> inline
INLINE_LIMIT == 100

LANGUAGE_PREFIX == <<"l", "a", "n", "g", "u", "a", "g", "e", "-">>
LANG_PREFIX == <<"l", "a", "n", "g", "-">>
HIGHLIGHT_PREFIX == <<"h", "i", "g", "h", "l", "i", "g", "h", "t", "-">>

KnownLanguages ==
    { <<"p", "y", "t", "h", "o", "n">>, <<"j", "a", "v", "a", "s", "c", "r", "i", "p", "t">>,
      <<"t", "y", "p", "e", "s", "c", "r", "i", "p", "t">>, <<"j", "a", "v", "a">>,
      <<"c">>, <<"c", "p", "p">>, <<"c", "s", "h", "a", "r", "p">>, <<"g", "o">>,
      <<"r", "u", "s", "t">>, <<"r", "u", "b", "y">>, <<"p", "h", "p">>,
      <<"s", "w", "i", "f", "t">>, <<"k", "o", "t", "l", "i", "n">>,
      <<"s", "c", "a", "l", "a">>, <<"s", "q", "l">>, <<"h", "t", "m", "l">>,
      <<"c", "s", "s">>, <<"b", "a", "s", "h">>, <<"s", "h", "e", "l", "l">>,
      <<"j", "s", "o", "n">>, <<"y", "a", "m", "l">>, <<"x", "m", "l">> }

\* The grave accent character (U+0060), written by name: the character cannot
\* open a string of this module.
BACKTICK == "BACKTICK"

\* An attribute of attrs_dict: absent, present without a value (None), or a string.
Absent == [kind |-> "absent", val |-> <<>>]
NoValue == [kind |-> "none", val |-> <<>>]
Value(s) == [kind |-> "str", val |-> s]

NoAttrs == [class |-> Absent, data_lang |-> Absent]

\* The first class token with one of the three prefixes, or 0.
FirstPrefixed(classes) ==
    LET hits == {i \in DOMAIN classes :
                    \/ StartsWith(Lower(classes[i]), LANGUAGE_PREFIX)
                    \/ StartsWith(Lower(classes[i]), LANG_PREFIX)
                    \/ StartsWith(Lower(classes[i]), HIGHLIGHT_PREFIX)}
    IN  IF hits = {} THEN 0 ELSE SetMin(hits)

\* The first class token that is a known language name, or 0.
FirstKnown(classes) ==
    LET hits == {i \in DOMAIN classes : Lower(classes[i]) \in KnownLanguages}
    IN  IF hits = {} THEN 0 ELSE SetMin(hits)

\* _detect_language raises TypeError when it iterates over classes = None.
DetectLanguageRaises(attrs) == attrs.class.kind = "none"

DetectLanguage(attrs) ==
    LET classes == Split(attrs.class.val)
        hit == FirstPrefixed(classes)
        cls_lower == Lower(classes[hit])
        known == FirstKnown(classes)
    IN  IF hit # 0
        THEN IF StartsWith(cls_lower, LANGUAGE_PREFIX)
             THEN RemoveAll(cls_lower, LANGUAGE_PREFIX)
             ELSE IF StartsWith(cls_lower, LANG_PREFIX)
             THEN RemoveAll(cls_lower, LANG_PREFIX)
             ELSE RemoveAll(cls_lower, HIGHLIGHT_PREFIX)
        ELSE IF attrs.data_lang.kind = "str" /\ attrs.data_lang.val # <<>>
        THEN Lower(attrs.data_lang.val)
        ELSE IF known # 0 THEN Lower(classes[known])
        ELSE <<>>

\* result.append of the fenced block: newline, three backticks, the language,
\* newline, the code, newline, three backticks, newline
Fence(lang, code) ==
    <<"\n", BACKTICK, BACKTICK, BACKTICK>> \o lang \o <<"\n">> \o code
        \o <<"\n", BACKTICK, BACKTICK, BACKTICK, "\n">>
\* result.append of inline code: the code between two backticks
InlineCode(code) == <<BACKTICK>> \o code \o <<BACKTICK>>

\* __init__
NewParser ==
    [result        |-> <<>>,
     code_blocks   |-> <<>>,
     in_code       |-> FALSE,
     code_buffer   |-> <<>>,
     code_language |-> <<>>,
     in_pre        |-> FALSE,
     skip_content  |-> FALSE,
     raised        |-> FALSE]

HandleStarttagCodeInPre(p, tag, attrs) ==
    IF tag \in {"script", "style"} THEN [p EXCEPT !.skip_content = TRUE]
    ELSE IF tag \in {"pre", "code"}
    THEN IF DetectLanguageRaises(attrs)
         THEN [p EXCEPT !.in_pre = (tag = "pre" \/ @), !.in_code = TRUE, !.raised = TRUE]
         ELSE [p EXCEPT !.in_pre = (tag = "pre" \/ @), !.in_code = TRUE,
                        !.code_language = DetectLanguage(attrs),
                        !.code_buffer = <<>>]
    ELSE IF tag \in BLOCK_TAGS THEN [p EXCEPT !.result = Append(@, <<"\n">>)]
    ELSE IF tag = "li" THEN [p EXCEPT !.result = Append(@, <<"\n", "-", " ">>)]
    ELSE IF tag = "br" THEN [p EXCEPT !.result = Append(@, <<"\n">>)]
    ELSE p
HandleStarttag(p, tag, attrs) ==
    IF tag \in {"script", "style"} THEN [p EXCEPT !.skip_content = TRUE]
    ELSE IF tag = "pre"
    THEN IF DetectLanguageRaises(attrs)
         THEN [p EXCEPT !.in_pre = TRUE, !.in_code = TRUE, !.raised = TRUE]
         ELSE [p EXCEPT !.in_pre = TRUE, !.in_code = TRUE,
                        !.code_language = DetectLanguage(attrs),
                        !.code_buffer = <<>>]
    ELSE IF tag = "code" /\ ~p.in_pre
    THEN IF DetectLanguageRaises(attrs)
         THEN [p EXCEPT !.in_code = TRUE, !.raised = TRUE]
         ELSE [p EXCEPT !.in_code = TRUE,
                        !.code_language = DetectLanguage(attrs),
                        !.code_buffer = <<>>]
    ELSE IF tag \in BLOCK_TAGS THEN [p EXCEPT !.result = Append(@, <<"\n">>)]
    ELSE IF tag = "li" THEN [p EXCEPT !.result = Append(@, <<"\n", "-", " ">>)]
    ELSE IF tag = "br" THEN [p EXCEPT !.result = Append(@, <<"\n">>)]
    ELSE p

\* The two statements that emit a block: code_blocks.append, result.append.
EmitBlock(p, code) ==
    [p EXCEPT !.code_blocks = Append(@, [language |-> p.code_language, code |-> code]),
              !.result = Append(@, Fence(p.code_language, code))]

\* self._in_code = False, without the reset of the buffer and of the language
LeaveCodeKeepBuffer(p) == [p EXCEPT !.in_code = FALSE]

\* self._in_code = False; self._code_buffer = []; self._code_language = ""
LeaveCode(p) ==
    [p EXCEPT !.in_code = FALSE, !.code_buffer = <<>>, !.code_language = <<>>]

\* The branch of handle_endtag for </code> outside <pre>.
CloseCodeInclusiveLimit(p) ==
    LET code == Strip(Join(p.code_buffer))
    IN  LeaveCode(IF code # <<>> /\ ~Contains(code, <<"\n">>) /\ Len(code) <= INLINE_LIMIT
                  THEN [p EXCEPT !.result = Append(@, InlineCode(code))]
                  ELSE IF code # <<>> THEN EmitBlock(p, code)
                  ELSE p)
CloseCode(p) ==
    LET code == Strip(Join(p.code_buffer))
    IN  LeaveCode(IF code # <<>> /\ ~Contains(code, <<"\n">>) /\ Len(code) < INLINE_LIMIT
                  THEN [p EXCEPT !.result = Append(@, InlineCode(code))]
                  ELSE IF code # <<>> THEN EmitBlock(p, code)
                  ELSE p)

\* The branch of handle_endtag for </pre>.
ClosePreNoRecord(p) ==
    LET code == Strip(Join(p.code_buffer))
    IN  [LeaveCode(IF p.code_buffer # <<>> /\ code # <<>>
                   THEN [p EXCEPT !.result = Append(@, Fence(p.code_language, code))]
                   ELSE p)
         EXCEPT !.in_pre = FALSE]
ClosePre(p) ==
    LET code == Strip(Join(p.code_buffer))
    IN  [LeaveCode(IF p.code_buffer # <<>> /\ code # <<>> THEN EmitBlock(p, code) ELSE p)
         EXCEPT !.in_pre = FALSE]

HandleEndtag(p, tag) ==
    IF tag \in {"script", "style"} THEN [p EXCEPT !.skip_content = FALSE]
    ELSE IF tag = "pre" THEN ClosePre(p)
    ELSE IF tag = "code" /\ ~p.in_pre THEN CloseCode(p)
    ELSE IF tag \in BLOCK_TAGS THEN [p EXCEPT !.result = Append(@, <<"\n">>)]
    ELSE p

HandleDataSkipOutsideCode(p, data) ==
    IF p.in_code THEN [p EXCEPT !.code_buffer = Append(@, data)]
    ELSE IF p.skip_content THEN p
    ELSE [p EXCEPT !.result = Append(@, data)]
HandleData(p, data) ==
    IF p.skip_content THEN p
    ELSE IF p.in_code THEN [p EXCEPT !.code_buffer = Append(@, data)]
    ELSE [p EXCEPT !.result = Append(@, data)]

\* get_text
GetText(p) == Join(p.result)

\* --------------------------------------------------- parser events (feed)
\* What HTMLParser.feed calls the handlers with, in document order.
StartEvent(tag, attrs) == [kind |-> "start", tag |-> tag, attrs |-> attrs, data |-> <<>>]
EndEvent(tag) == [kind |-> "end", tag |-> tag, attrs |-> NoAttrs, data |-> <<>>]
DataEvent(data) == [kind |-> "data", tag |-> "", attrs |-> NoAttrs, data |-> data]
NoEvent == [kind |-> "none", tag |-> "", attrs |-> NoAttrs, data |-> <<>>]

Dispatch(p, e) ==
    CASE e.kind = "start" -> HandleStarttag(p, e.tag, e.attrs)
      [] e.kind = "end"   -> HandleEndtag(p, e.tag)
      [] OTHER            -> HandleData(p, e.data)

RECURSIVE FeedFrom(_, _, _)
\* parser.feed(html), from event i on; an exception ends the feed.
FeedFrom(p, events, i) ==
    IF i > Len(events) \/ p.raised THEN p
    ELSE FeedFrom(Dispatch(p, events[i]), events, i + 1)

\* TextExtractor.extract on the document whose events are given.
Extract(events) ==
    LET p == FeedFrom(NewParser, events, 1)
    IN  [raised |-> p.raised,
         text |-> IF p.raised THEN <<>> ELSE NormalizeWhitespace(GetText(p)),
         code_blocks |-> IF p.raised THEN <<>> ELSE p.code_blocks]

\* TextExtractor.extract_text_only
ExtractTextOnly(events) == Extract(events).text

\* ------------------------------------------- TextExtractor.extract (feed)
VARIABLES
    parser,      \* the _HTMLTextExtractor object of this extract call
    xpc,         \* "feed" while parser.feed runs, then "done" or "raised"
    events,      \* the events HTMLParser has delivered so far (the document)
    vocab,       \* the events the document is written with
    cdata_elem,  \* HTMLParser.cdata_elem: "" or the open script/style element
    html,        \* the argument of extract when the document is text without tags
    out          \* the ExtractedContent returned

extractVars == <<parser, xpc, events, vocab, cdata_elem, html, out>>

GO == <<"g", "o">>
X == <<"x">>
ClassAttr(s) == [class |-> Value(s), data_lang |-> Absent]

\* Documents of standalone <code> elements with one-line content.
CodeVocab ==
    { StartEvent("code", NoAttrs), DataEvent(X), DataEvent(Fill("x", INLINE_LIMIT - 1)),
      EndEvent("code") }
\* Documents of standalone <code> elements with several lines, or only blanks.
CodeLinesVocab ==
    { StartEvent("code", NoAttrs), DataEvent(<<"x", "\n", "y">>), DataEvent(<<" ">>),
      EndEvent("code") }
\* Documents of <pre> elements that wrap <code>.
PreVocab ==
    { StartEvent("pre", NoAttrs), StartEvent("code", ClassAttr(LANGUAGE_PREFIX \o GO)),
      DataEvent(X), EndEvent("code"), EndEvent("pre") }
\* Documents of <pre> elements that name their language.
PreLangVocab ==
    { StartEvent("pre", ClassAttr(LANG_PREFIX \o GO)), DataEvent(X), DataEvent(<<" ">>),
      EndEvent("pre") }
\* Documents whose <pre>/<code> tags carry attributes without a value.
AttrVocab ==
    { StartEvent("pre", [class |-> NoValue, data_lang |-> Absent]),
      StartEvent("pre", [class |-> Absent, data_lang |-> NoValue]),
      StartEvent("code", [class |-> NoValue, data_lang |-> Absent]),
      DataEvent(X), EndEvent("pre") }
\* Documents of <code> elements with a language in class or data-lang.
CodeLangVocab ==
    { StartEvent("code", ClassAttr(LANGUAGE_PREFIX \o GO)),
      StartEvent("code", [class |-> Value(<<"x", " ">> \o GO), data_lang |-> Value(<<"J", "S">>)]),
      DataEvent(<<"x", "\n", "y">>), EndEvent("code") }
\* Documents of block-level elements and list items.
BlockVocab ==
    { StartEvent("p", NoAttrs), StartEvent("li", NoAttrs), EndEvent("p"), DataEvent(X) }
\* Documents with skipped elements.
ScriptVocab ==
    { StartEvent("script", NoAttrs), EndEvent("script"), StartEvent("p", NoAttrs),
      DataEvent(X) }
\* Documents of paragraphs and their white space.
TextVocab ==
    { StartEvent("p", NoAttrs), DataEvent(X), DataEvent(<<"\n">>), DataEvent(<<" ", "\t">>) }

\* Documents of <pre> elements whose class holds a prefix twice, a known
\* name before a prefixed token, or only a known name.
DetectVocab ==
    { StartEvent("pre", ClassAttr(LANG_PREFIX \o X \o LANG_PREFIX \o <<"y">>)),
      StartEvent("pre", [class |-> Value(GO \o <<" ", "H", "i", "g", "h", "l", "i", "g", "h", "t", "-", "X">>),
                         data_lang |-> Value(<<"J", "S">>)]),
      StartEvent("pre", ClassAttr(<<"x", " ", "G", "O">>)),
      EndEvent("pre") }

\* Documents with <script> inside and around <pre>.
PreScriptVocab ==
    { StartEvent("pre", NoAttrs), StartEvent("script", NoAttrs), EndEvent("script"),
      DataEvent(X), EndEvent("pre") }
\* Documents with <style> inside and around standalone <code>.
CodeStyleVocab ==
    { StartEvent("code", NoAttrs), StartEvent("style", NoAttrs), EndEvent("style"),
      DataEvent(X), EndEvent("code") }

\* Documents with line breaks inside standalone <code>.
CodeBreakVocab ==
    { StartEvent("code", NoAttrs), StartEvent("br", NoAttrs), DataEvent(X), EndEvent("code") }

Vocabularies ==
    { CodeVocab, CodeLinesVocab, PreVocab, PreLangVocab, AttrVocab, CodeLangVocab,
      BlockVocab, ScriptVocab, TextVocab, DetectVocab, PreScriptVocab, CodeStyleVocab,
      CodeBreakVocab }

\* Characters a document of text without tags holds at most.
MaxPlain == 3

PlainChars == {"x", "&", ";", " ", "\n"}

RECURSIVE PlainTextsUpTo(_)
PlainTextsUpTo(n) ==
    IF n = 0 THEN {<<>>}
    ELSE LET shorter == PlainTextsUpTo(n - 1)
         IN  shorter \cup {Append(t, c) : t \in shorter, c \in PlainChars}

\* Documents without tags, comments or character references.
PlainTexts == PlainTextsUpTo(MaxPlain)

\* What parser.feed(rawdata) delivers for rawdata without "<", when close() is
\* not called: HTMLParser.goahead(end = False) looks for the last "&" of the
\* final 34 characters and, when neither whitespace nor ";" follows it, waits
\* for more input and delivers nothing; otherwise it calls
\* handle_data(unescape(rawdata)) once. No string over PlainChars holds a
\* character reference, so unescape leaves the text as it is.
GoAheadText(rawdata) ==
    LET n == Len(rawdata)
        amps == {k \in Max(1, n - 33)..n : rawdata[k] = "&"}
        held == /\ amps # {}
                /\ \A k \in SetMax(amps)..n : ~IsSpace(rawdata[k]) /\ rawdata[k] # ";"
    IN  IF n = 0 \/ held THEN <<>> ELSE <<DataEvent(rawdata)>>

\* extract(html) for html without tags.
ExtractPlain(rawdata) == Extract(GoAheadText(rawdata))

\* Events a document holds at most.
MaxEvents == 6

InitExtract ==
    /\ parser = NewParser
    /\ xpc = "feed"
    /\ events = <<>>
    /\ \/ vocab \in Vocabularies /\ html = <<>>
       \/ vocab = {} /\ html \in PlainTexts
    /\ cdata_elem = ""
    /\ out = [text |-> <<>>, code_blocks |-> <<>>]

\* Inside <script>/<style> HTMLParser delivers text and the closing tag only.
Deliverable(e) ==
    /\ e \in vocab
    /\ cdata_elem # "" => \/ e.kind = "data"
                          \/ e.kind = "end" /\ e.tag = cdata_elem

\* feed delivers one event to its handler; an exception leaves extract.
Deliver(e) ==
    /\ xpc = "feed"
    /\ Len(events) < MaxEvents
    /\ Deliverable(e)
    /\ events' = Append(events, e)
    /\ parser' = Dispatch(parser, e)
    /\ xpc' = IF parser'.raised THEN "raised" ELSE "feed"
    /\ cdata_elem' = IF e.kind = "start" /\ e.tag \in {"script", "style"} THEN e.tag
                     ELSE IF e.kind = "end" /\ e.tag = cdata_elem THEN ""
                     ELSE cdata_elem
    /\ UNCHANGED <<vocab, html, out>>

StartTag == \E e \in vocab : e.kind = "start" /\ Deliver(e)
EndTag == \E e \in vocab : e.kind = "end" /\ Deliver(e)
Data == \E e \in vocab : e.kind = "data" /\ Deliver(e)

\* feed returns: text = _normalize_whitespace(parser.get_text()); return.
FeedReturns ==
    /\ xpc = "feed"
    /\ vocab # {}
    /\ xpc' = "done"
    /\ out' = [text |-> NormalizeWhitespace(GetText(parser)),
               code_blocks |-> parser.code_blocks]
    /\ UNCHANGED <<parser, events, vocab, cdata_elem, html>>

\* extract on a document of text without tags: feed, normalize, return.
ExtractText ==
    /\ xpc = "feed"
    /\ vocab = {}
    /\ events' = GoAheadText(html)
    /\ parser' = FeedFrom(NewParser, events', 1)
    /\ out' = [text |-> NormalizeWhitespace(GetText(parser')),
               code_blocks |-> parser'.code_blocks]
    /\ xpc' = "done"
    /\ UNCHANGED <<vocab, cdata_elem, html>>

NextExtract == StartTag \/ EndTag \/ Data \/ FeedReturns \/ ExtractText

\* -------------------------------------------------------------- chunk_book
RECURSIVE ChunkLoop(_, _, _, _, _, _, _)
\* The while loop of chunk_text from cursor `from` on, with the chunks so far.
ChunkLoop(txt, from, acc, size, ovl, respect, orc) ==
    IF from >= Len(txt) THEN acc
    ELSE LET to == ResolveEnd(txt, from, TargetEnd(txt, from, size, orc), respect)
             emitted == IF ChunkContent(txt, from, to) # <<>>
                        THEN Append(acc, ChunkRecord(txt, from, to, orc))
                        ELSE acc
         IN  ChunkLoop(txt, CursorAfter(from, to, OverlapChars(txt, to, ovl, orc)),
                       emitted, size, ovl, respect, orc)

\* chunk_text as a function of its arguments.
ChunkText(txt, size, ovl, respect, orc) ==
    IF txt = <<>> THEN <<>> ELSE ChunkLoop(txt, 0, <<>>, size, ovl, respect, orc)

\* The inner for loop of chunk_book: the chapter's chunks, stamped with
\* chunk_id (counted on from next_id), chapter_index, title and filename.
StampChunksPerChapter(chapter_chunks, next_id, index, chapter) ==
    [i \in DOMAIN chapter_chunks |->
        [content          |-> chapter_chunks[i].content,
         token_count      |-> chapter_chunks[i].token_count,
         start_offset     |-> chapter_chunks[i].start_offset,
         end_offset       |-> chapter_chunks[i].end_offset,
         chunk_id         |-> index + i - 1,
         chapter_index    |-> index,
         chapter_title    |-> chapter.title,
         chapter_filename |-> chapter.filename]]
StampChunks(chapter_chunks, next_id, index, chapter) ==
    [i \in DOMAIN chapter_chunks |->
        [content          |-> chapter_chunks[i].content,
         token_count      |-> chapter_chunks[i].token_count,
         start_offset     |-> chapter_chunks[i].start_offset,
         end_offset       |-> chapter_chunks[i].end_offset,
         chunk_id         |-> next_id + i - 1,
         chapter_index    |-> index,
         chapter_title    |-> chapter.title,
         chapter_filename |-> chapter.filename]]

\* The inner for loop of chunk_book on one chapter's chunks: the list and the
\* running id after it.
AppendChapter(all, next_id, index, chapter, chapter_chunks) ==
    [all_chunks |-> all \o StampChunks(chapter_chunks, next_id, index, chapter),
     chunk_id   |-> next_id + Len(chapter_chunks)]

VARIABLES
    chapters_data,  \* chunk_book argument: (filename, title, html) per chapter
    config,         \* chunk_book argument: the ChunkConfig
    book_oracle,    \* which token oracle _get_token_count reaches
    bpc,            \* "chapters" while the for loop runs, then "done" or "raised"
    chapter_index,  \* index of the chapter handled next
    all_chunks,     \* the list being returned
    chunk_id        \* the running chunk id

bookVars == <<chapters_data, config, book_oracle, bpc, chapter_index, all_chunks, chunk_id>>

\* Chapters a book holds at most.
MaxChapters == 3

Chars3 == <<"a", "a", "a">>
ChapterPool ==
    { [filename |-> "ch1.html", title |-> "One",
       html |-> <<DataEvent(Chars3 \o <<" ">> \o Chars3 \o <<".", " ">> \o Chars3)>>],
      [filename |-> "ch2.html", title |-> "Two", html |-> <<>>],
      [filename |-> "ch3.html", title |-> "Three",
       html |-> <<StartEvent("p", NoAttrs), DataEvent(<<" ", "\n", " ">>), EndEvent("p")>>],
      [filename |-> "ch4.html", title |-> "Four",
       html |-> <<StartEvent("p", NoAttrs), DataEvent(Chars3), EndEvent("p"),
                  StartEvent("pre", ClassAttr(LANG_PREFIX \o GO)),
                  DataEvent(X), EndEvent("pre")>>],
      [filename |-> "ch5.html", title |-> "Five",
       html |-> <<StartEvent("pre", [class |-> NoValue, data_lang |-> Absent]),
                  DataEvent(X), EndEvent("pre")>>] }

RECURSIVE ChapterLists(_)
ChapterLists(n) ==
    IF n = 0 THEN {<<>>}
    ELSE LET shorter == ChapterLists(n - 1)
         IN  shorter \cup {Append(l, c) : l \in shorter, c \in ChapterPool}

InitBook ==
    /\ chapters_data \in ChapterLists(MaxChapters)
    /\ config \in [chunk_size : 1..MaxChunkSize, overlap : 0..MaxOverlap,
                   respect_boundaries : BOOLEAN]
    /\ book_oracle \in {"len4", "words"}
    /\ bpc = "chapters"
    /\ chapter_index = 0
    /\ all_chunks = <<>>
    /\ chunk_id = 0

\* One pass of the outer for loop of chunk_book; an exception of
\* extract_text_only leaves chunk_book.
BookChapter ==
    /\ bpc = "chapters"
    /\ chapter_index < Len(chapters_data)
    /\ LET chapter == chapters_data[chapter_index + 1]
           txt == ExtractTextOnly(chapter.html)
           chapter_chunks == ChunkText(txt, config.chunk_size, config.overlap,
                                       config.respect_boundaries, book_oracle)
       IN  IF Extract(chapter.html).raised
           THEN /\ bpc' = "raised"
                /\ UNCHANGED <<all_chunks, chunk_id, chapter_index>>
           ELSE /\ all_chunks' = AppendChapter(all_chunks, chunk_id, chapter_index,
                                               chapter, chapter_chunks).all_chunks
                /\ chunk_id' = AppendChapter(all_chunks, chunk_id, chapter_index,
                                             chapter, chapter_chunks).chunk_id
                /\ chapter_index' = chapter_index + 1
                /\ bpc' = bpc
    /\ UNCHANGED <<chapters_data, config, book_oracle>>

\* return all_chunks
BookReturns ==
    /\ bpc = "chapters"
    /\ chapter_index >= Len(chapters_data)
    /\ bpc' = "done"
    /\ UNCHANGED <<chapters_data, config, book_oracle, chapter_index, all_chunks, chunk_id>>

NextBook == BookChapter \/ BookReturns

\* --------------------------------------------- concurrent invocations
\* extract and chunk_text called on one ChunkingPlugin (and its one
\* TextExtractor) from several threads at once. extract builds its
\* _HTMLTextExtractor in a local variable and chunk_text keeps chunks and
\* start in local variables: each invocation has a frame of its own. The one
\* object the invocations share and write is TokenPlugin._encoder, the
\* class-level cache the token plugin fills on its first count.

\* Invocations that run at once.
MaxCalls == 2
Invocations == 1..MaxCalls

VARIABLES
    calls,      \* per invocation: the method called and its arguments
    cpc,        \* per invocation: "call", "run", "done" or "raised"
    frames,     \* per frame: the locals parser (with the events fed), chunks, start
    results,    \* per invocation: the value returned
    encoder,    \* TokenPlugin._encoder
    overlapped  \* an invocation has taken a step while another was running

concVars == <<calls, cpc, frames, results, encoder, overlapped>>

\* The frame that holds the locals of invocation t.
InstanceFrame(t) == 1
FrameOf(t) == t

NewFrame == [parser |-> NewParser, fed |-> 0, chunks |-> <<>>, start |-> 0]

ConcDocs ==
    { <<StartEvent("pre", NoAttrs), DataEvent(X), EndEvent("pre")>>,
      <<DataEvent(X), StartEvent("script", NoAttrs), DataEvent(X)>> }

ConcTexts == { <<>>, Fill("a", 3) \o <<".", " ">> \o Fill("a", 3) }

ExtractCall(doc) ==
    [op |-> "extract", doc |-> doc, text |-> <<>>, chunk_size |-> 1, overlap |-> 0,
     respect_boundaries |-> TRUE, orc |-> "words"]
ChunkTextCall(txt, ovl, orc) ==
    [op |-> "chunk_text", doc |-> <<>>, text |-> txt, chunk_size |-> 1, overlap |-> ovl,
     respect_boundaries |-> TRUE, orc |-> orc]

ConcCalls ==
    {ExtractCall(d) : d \in ConcDocs}
    \cup {ChunkTextCall(t, 0, "len4") : t \in ConcTexts}
    \cup {ChunkTextCall(Fill("a", 3) \o <<" ">> \o Fill("a", 2), 1, "words")}

InitConc ==
    /\ calls \in [Invocations -> ConcCalls]
    /\ cpc = [t \in Invocations |-> "call"]
    /\ frames = [f \in Invocations |-> NewFrame]
    /\ results = [t \in Invocations |-> <<>>]
    /\ encoder = "None"
    /\ overlapped = FALSE

\* Invocation t takes a step: note whether another invocation is under way.
Step(t) ==
    overlapped' = (overlapped \/ \E u \in Invocations \ {t} : cpc[u] = "run")

\* parser = _HTMLTextExtractor()
ExtractNew(t) ==
    /\ cpc[t] = "call"
    /\ calls[t].op = "extract"
    /\ frames' = [frames EXCEPT ![FrameOf(t)].parser = NewParser,
                                ![FrameOf(t)].fed = 0]
    /\ cpc' = [cpc EXCEPT ![t] = "run"]
    /\ Step(t)
    /\ UNCHANGED <<calls, results, encoder>>

\* parser.feed(html) delivers the next event of the document.
ExtractFeed(t) ==
    LET f == frames[FrameOf(t)]
    IN  /\ cpc[t] = "run"
        /\ calls[t].op = "extract"
        /\ f.fed < Len(calls[t].doc)
        /\ frames' = [frames EXCEPT
                        ![FrameOf(t)].parser = Dispatch(f.parser, calls[t].doc[f.fed + 1]),
                        ![FrameOf(t)].fed = f.fed + 1]
        /\ cpc' = [cpc EXCEPT ![t] = IF frames'[FrameOf(t)].parser.raised
                                     THEN "raised" ELSE "run"]
        /\ Step(t)
        /\ UNCHANGED <<calls, results, encoder>>

\* text = self._normalize_whitespace(parser.get_text()); return ExtractedContent
ExtractReturn(t) ==
    LET f == frames[FrameOf(t)]
    IN  /\ cpc[t] = "run"
        /\ calls[t].op = "extract"
        /\ f.fed >= Len(calls[t].doc)
        /\ results' = [results EXCEPT ![t] =
                         [text |-> NormalizeWhitespace(GetText(f.parser)),
                          code_blocks |-> f.parser.code_blocks]]
        /\ cpc' = [cpc EXCEPT ![t] = "done"]
        /\ Step(t)
        /\ UNCHANGED <<calls, frames, encoder>>

\* if not text: return []; chunks = []; start = 0
ChunkTextCalled(t) ==
    /\ cpc[t] = "call"
    /\ calls[t].op = "chunk_text"
    /\ IF calls[t].text = <<>>
       THEN /\ results' = [results EXCEPT ![t] = <<>>]
            /\ cpc' = [cpc EXCEPT ![t] = "done"]
            /\ UNCHANGED frames
       ELSE /\ frames' = [frames EXCEPT ![FrameOf(t)].chunks = <<>>,
                                        ![FrameOf(t)].start = 0]
            /\ cpc' = [cpc EXCEPT ![t] = "run"]
            /\ UNCHANGED results
    /\ Step(t)
    /\ UNCHANGED <<calls, encoder>>

\* One iteration of the while loop of chunk_text; counting with the token
\* plugin loads the encoder if no invocation has loaded it yet.
ChunkTextIterate(t) ==
    LET f == frames[FrameOf(t)]
        c == calls[t]
        target_end == TargetEnd(c.text, f.start, c.chunk_size, c.orc)
        to == ResolveEnd(c.text, f.start, target_end, c.respect_boundaries)
        overlap_chars == OverlapChars(c.text, to, c.overlap, c.orc)
        raises == \/ EstimateRaises(c.text, f.start, c.chunk_size, c.orc)
                  \/ c.overlap > 0 /\ EstimateRaises(c.text, to - c.overlap * CHARS_PER_TOKEN,
                                                     c.overlap, c.orc)
    IN  /\ cpc[t] = "run"
        /\ c.op = "chunk_text"
        /\ f.start < Len(c.text)
        /\ IF raises
           THEN /\ cpc' = [cpc EXCEPT ![t] = "raised"]
                /\ UNCHANGED frames
           ELSE /\ frames' = [frames EXCEPT
                                ![FrameOf(t)].chunks =
                                    IF ChunkContent(c.text, f.start, to) # <<>>
                                    THEN Append(f.chunks, ChunkRecord(c.text, f.start, to, c.orc))
                                    ELSE f.chunks,
                                ![FrameOf(t)].start = CursorAfter(f.start, to, overlap_chars)]
                /\ UNCHANGED cpc
        /\ encoder' = IF HasTokenPlugin(c.orc) /\ ~KernelGetRaises(c.orc)
                         /\ ~CountTokensRaises(c.orc)
                      THEN "cl100k_base" ELSE encoder
        /\ Step(t)
        /\ UNCHANGED <<calls, results>>

\* return chunks
ChunkTextReturn(t) ==
    LET f == frames[FrameOf(t)]
    IN  /\ cpc[t] = "run"
        /\ calls[t].op = "chunk_text"
        /\ f.start >= Len(calls[t].text)
        /\ results' = [results EXCEPT ![t] = f.chunks]
        /\ cpc' = [cpc EXCEPT ![t] = "done"]
        /\ Step(t)
        /\ UNCHANGED <<calls, frames, encoder>>

NextConc ==
    \E t \in Invocations :
        \/ ExtractNew(t)
        \/ ExtractFeed(t)
        \/ ExtractReturn(t)
        \/ ChunkTextCalled(t)
        \/ ChunkTextIterate(t)
        \/ ChunkTextReturn(t)

\* ------------------------------------------- _estimate_char_position alone
\* _estimate_char_position called on its own: its arguments, the value it
\* returns and the number of times it asks the token oracle.
VARIABLES
    e_text,     \* argument text
    e_start,    \* argument start
    e_tokens,   \* argument token_count
    e_oracle,   \* which token oracle _get_token_count reaches
    epc,        \* "call" or "done"
    e_result,   \* the value returned
    e_queries   \* calls of _get_token_count made

estimateVars == <<e_text, e_start, e_tokens, e_oracle, epc, e_result, e_queries>>

\* `words` one-letter words, blanks up to `span`, then one long word.
SparseText(words, span, total) ==
    [k \in 1..total |->
        IF k <= 2 * words THEN (IF k % 2 = 1 THEN "a" ELSE " ")
        ELSE IF k <= span THEN " " ELSE "a"]

\* Texts and a budget large enough for the quotient 4n * n / a to be a whole
\* number that the float product falls short of: 42 or 21 words in the first
\* 468 characters count as 54 or 27 tokens against a budget of 117.
ProbeTexts == {SparseText(42, 468, 1100), SparseText(21, 468, 2100)}
ProbeBudgets == {117}

EstimateOracles == {"len4", "words", "bytes", "no_kernel"}

InitEstimate ==
    /\ \/ /\ e_text \in SegTexts(MaxSegs - 1)
          /\ e_tokens \in 1..MaxChunkSize
       \/ /\ e_text \in ProbeTexts
          /\ e_tokens \in ProbeBudgets \cup 1..MaxChunkSize
    /\ e_start \in 0..MaxOverlap
    /\ e_oracle \in EstimateOracles
    /\ epc = "call"
    /\ e_result = 0
    /\ e_queries = 0

\* _get_token_count is called once, after the early return.
EstimateQueries(txt, from, token_count) ==
    IF from + token_count * CHARS_PER_TOKEN >= Len(txt) THEN 0 ELSE 1

EstimateCall ==
    /\ epc = "call"
    /\ e_result' = EstimateCharPosition(e_text, e_start, e_tokens, e_oracle)
    /\ e_queries' = EstimateQueries(e_text, e_start, e_tokens)
    /\ epc' = "done"
    /\ UNCHANGED <<e_text, e_start, e_tokens, e_oracle>>

NextEstimate == EstimateCall

\* ------------------------------------------------ _find_break_point alone
\* _find_break_point called on its own: its arguments and the value returned.
VARIABLES
    b_text,    \* argument text
    b_target,  \* argument target_pos
    b_window,  \* argument search_window
    fpc,       \* "call" or "done"
    b_result   \* the value returned

breakVars == <<b_text, b_target, b_window, fpc, b_result>>

\* The widest of the small search windows.
MaxWindow == 8

\* Small windows, and the default one.
Windows == 1..MaxWindow \cup {SEARCH_WINDOW}

\* Texts with one space before target_pos and one past target_pos + 50.
LookaheadTexts ==
    { Fill("a", 3) \o <<" ">> \o Fill("a", SPACE_LOOKAHEAD + 10) \o <<" ">> \o Fill("a", 5),
      <<" ">> \o Fill("a", SPACE_LOOKAHEAD - 10) \o <<" ">> \o Fill("a", 5) }

InitBreak ==
    /\ b_text \in ShortTexts \cup LookaheadTexts
    /\ b_target \in 0..Min(Len(b_text), LongChunk)
    /\ b_window \in Windows
    /\ fpc = "call"
    /\ b_result = 0

FindBreakPointCall ==
    /\ fpc = "call"
    /\ b_result' = FindBreakPoint(b_text, b_target, b_window)
    /\ fpc' = "done"
    /\ UNCHANGED <<b_text, b_target, b_window>>

NextBreak == FindBreakPointCall

\* ------------------------------------------------ web server: downloads
\* DownloaderHandler: the requests POST /api/download and POST /api/cancel,
\* served one at a time by HTTPServer, and the background threads that run
\* _download_book_async. Each accepted request names another book.
VARIABLES
    download_progress,  \* download_progress["status"], "" while the dict is empty
    cancel_requested,   \* DownloaderHandler._cancel_requested
    downloads,          \* per thread: position, arguments, loop index, book_dir
    reply               \* the response _send_json wrote for the latest request

serverVars == <<download_progress, cancel_requested, downloads, reply>>

\* Threads the server starts at most.
MaxDownloads == 2
\* Chapters a book has at most.
MaxBookChapters == 1

Downloads == 1..MaxDownloads

SUPPORTED_FORMATS ==
    { "epub", "markdown", "markdown-chapters", "pdf", "pdf-chapters", "plaintext",
      "plaintext-chapters", "json", "jsonl", "chunks" }

\* FORMAT_ALIASES.get(fmt, fmt)
Canonical(fmt) ==
    IF fmt = "md" THEN "markdown" ELSE IF fmt = "txt" THEN "plaintext" ELSE fmt

\* parse_formats of a list without "jsonl": the supported names, aliases
\* resolved, each once, in order; ["epub"] when none is left.
ParseFormats(raw) ==
    LET canon == [i \in DOMAIN raw |-> Canonical(raw[i])]
        kept == KeepWhere(canon, [i \in DOMAIN canon |->
                    /\ canon[i] \in SUPPORTED_FORMATS
                    /\ \A j \in 1..(i - 1) : canon[j] # canon[i]])
    IN  IF kept = <<>> THEN <<"epub">> ELSE kept

\* The "format" field of the requests.
FormatInputs == { <<"zip">>, <<"md", "markdown", "epub">> }

\* The statuses after which no download is active.
FINAL_STATUSES == {"completed", "error", "cancelled"}

\* status and status not in ("completed", "error", "cancelled")
Active(status) == status # "" /\ status \notin FINAL_STATUSES

NoThread ==
    [pc |-> "idle", formats |-> {}, skip_images |-> FALSE, total |-> 0, i |-> 0,
     book_dir |-> FALSE, final |-> ""]

NoReply == [to |-> "", code |-> 0, success |-> FALSE]
Reply(to, code, success) == [to |-> to, code |-> code, success |-> success]

InitServer ==
    /\ download_progress = ""
    /\ cancel_requested = FALSE
    /\ downloads = [t \in Downloads |-> NoThread]
    /\ reply = NoReply

\* The thread runs between thread.start() and its last _set_progress.
Running(t) == downloads[t].pc \notin {"idle", "ended"}

\* _handle_download: 400 without book_id; 409 when the status read under the
\* lock is that of an active download; otherwise a thread is started.
HandleDownload ==
    \E book_id \in {"", "b"}, format \in FormatInputs, skip \in BOOLEAN :
        IF book_id = ""
        THEN /\ reply' = Reply("download", 400, FALSE)
             /\ UNCHANGED <<download_progress, cancel_requested, downloads>>
        ELSE IF Active(download_progress)
        THEN /\ reply' = Reply("download", 409, FALSE)
             /\ UNCHANGED <<download_progress, cancel_requested, downloads>>
        ELSE /\ \E t \in Downloads : downloads[t].pc = "idle"
             /\ LET t == SetMin({u \in Downloads : downloads[u].pc = "idle"})
                IN  downloads' = [downloads EXCEPT ![t] =
                        [NoThread EXCEPT !.pc = "reset",
                                         !.formats = {ParseFormats(format)[k] :
                                                         k \in DOMAIN ParseFormats(format)},
                                         !.skip_images = skip]]
             /\ reply' = Reply("download", 200, TRUE)
             /\ UNCHANGED <<download_progress, cancel_requested>>

\* _handle_cancel
HandleCancel ==
    /\ IF Active(download_progress)
       THEN /\ cancel_requested' = TRUE
            /\ reply' = Reply("cancel", 200, TRUE)
       ELSE /\ cancel_requested' = cancel_requested
            /\ reply' = Reply("cancel", 200, FALSE)
    /\ UNCHANGED <<download_progress, downloads>>

\* _download_book_async: DownloaderHandler._cancel_requested = False
ResetCancel(t) ==
    /\ downloads[t].pc = "reset"
    /\ cancel_requested' = FALSE
    /\ downloads' = [downloads EXCEPT ![t].pc = "report_starting"]
    /\ UNCHANGED <<download_progress, reply>>

\* The status each report(...) of download writes through _on_progress.
ReportStatus(pos) ==
    CASE pos = "report_starting"  -> "starting"
      [] pos = "report_metadata"  -> "fetching_metadata"
      [] pos = "report_chapters"  -> "fetching_chapters"
      [] pos = "report_cover"     -> "downloading_cover"
      [] pos = "report_chapter"   -> "processing_chapters"
      [] pos = "report_eta"       -> "processing_chapters"
      [] pos = "report_assets"    -> "downloading_assets"
      [] pos = "report_epub"      -> "generating_epub"
      [] pos = "report_markdown"  -> "generating_markdown"
      [] pos = "report_completed" -> "completed"

ReportPositions ==
    { "report_starting", "report_metadata", "report_chapters", "report_cover",
      "report_chapter", "report_eta", "report_assets", "report_epub", "report_markdown",
      "report_completed" }

\* The statement after each report.
AfterReport(pos) ==
    CASE pos = "report_starting"  -> "report_metadata"
      [] pos = "report_metadata"  -> "fetch_metadata"
      [] pos = "report_chapters"  -> "fetch_chapters"
      [] pos = "report_cover"     -> "download_cover"
      [] pos = "report_chapter"   -> "fetch_content"
      [] pos = "report_eta"       -> "loop"
      [] pos = "report_assets"    -> "download_css"
      [] pos = "report_epub"      -> "generate_epub"
      [] pos = "report_markdown"  -> "generate_markdown"
      [] pos = "report_completed" -> "return"

\* report(status, ...): _on_progress replaces download_progress under the lock.
Report(t) ==
    /\ downloads[t].pc \in ReportPositions
    /\ download_progress' = ReportStatus(downloads[t].pc)
    /\ downloads' = [downloads EXCEPT
           ![t].pc = AfterReport(downloads[t].pc),
           ![t].i = IF downloads[t].pc = "report_eta" THEN @ + 1 ELSE @]
    /\ UNCHANGED <<cancel_requested, reply>>

\* The calls of download into the other plugins, which fetch or write.
PluginCalls ==
    { "fetch_metadata", "fetch_chapters", "download_cover", "fetch_content",
      "download_css", "download_images", "generate_epub", "generate_markdown" }

\* Phase 6: the first of the formats left to generate that was asked for.
GenerateFrom(d, left) ==
    IF "epub" \in left /\ "epub" \in d.formats THEN "report_epub"
    ELSE IF "markdown" \in left
            /\ d.formats \cap {"markdown", "md", "markdown-chapters"} # {}
    THEN "report_markdown"
    ELSE "report_completed"

\* The statement after each plugin call that returned.
AfterCall(d) ==
    CASE d.pc = "fetch_metadata"    -> "report_chapters"
      [] d.pc = "fetch_chapters"    -> IF d.skip_images THEN "loop" ELSE "report_cover"
      [] d.pc = "download_cover"    -> "loop"
      [] d.pc = "fetch_content"     -> "report_eta"
      [] d.pc = "download_css"      -> IF d.skip_images
                                       THEN GenerateFrom(d, {"epub", "markdown"})
                                       ELSE "download_images"
      [] d.pc = "download_images"   -> GenerateFrom(d, {"epub", "markdown"})
      [] d.pc = "generate_epub"     -> GenerateFrom(d, {"markdown"})
      [] d.pc = "generate_markdown" -> "report_completed"

\* A plugin call returns; fetch_list gives the chapters and create_book_dir
\* makes the book directory.
PluginReturns(t) ==
    /\ downloads[t].pc \in PluginCalls
    /\ \E n \in 0..MaxBookChapters :
          downloads' = [downloads EXCEPT
              ![t].pc = AfterCall(downloads[t]),
              ![t].total = IF downloads[t].pc = "fetch_chapters" THEN n ELSE @,
              ![t].book_dir = IF downloads[t].pc = "fetch_chapters" THEN TRUE ELSE @]
    /\ UNCHANGED <<download_progress, cancel_requested, reply>>

\* A plugin call raises (the network or the disk fails): download is left
\* for the except branch of _download_book_async.
PluginRaises(t) ==
    /\ downloads[t].pc \in PluginCalls
    /\ downloads' = [downloads EXCEPT ![t].pc = "except_error"]
    /\ UNCHANGED <<download_progress, cancel_requested, reply>>

\* for i, ch in enumerate(chapters): if check_cancel(): _cleanup_on_cancel(
\* book_dir); raise Exception("Download cancelled by user")
ChapterLoop(t) ==
    /\ downloads[t].pc = "loop"
    /\ downloads' = [downloads EXCEPT ![t] =
           IF downloads[t].i >= downloads[t].total THEN [@ EXCEPT !.pc = "report_assets"]
           ELSE IF cancel_requested THEN [@ EXCEPT !.pc = "except_cancelled",
                                                   !.book_dir = FALSE]
           ELSE [@ EXCEPT !.pc = "report_chapter"]]
    /\ UNCHANGED <<download_progress, cancel_requested, reply>>

\* The last _set_progress of _download_book_async: "completed" after download
\* returned, "cancelled" or "error" in the except branch.
Finish(t) ==
    /\ downloads[t].pc \in {"return", "except_cancelled", "except_error"}
    /\ LET status == CASE downloads[t].pc = "return" -> "completed"
                       [] downloads[t].pc = "except_cancelled" -> "cancelled"
                       [] OTHER -> "error"
       IN  /\ download_progress' = status
           /\ downloads' = [downloads EXCEPT ![t].pc = "ended", ![t].final = status]
    /\ UNCHANGED <<cancel_requested, reply>>

NextServer ==
    \/ HandleDownload
    \/ HandleCancel
    \/ \E t \in Downloads : ResetCancel(t)
    \/ \E t \in Downloads : Report(t)
    \/ \E t \in Downloads : PluginReturns(t)
    \/ \E t \in Downloads : PluginRaises(t)
    \/ \E t \in Downloads : ChapterLoop(t)
    \/ \E t \in Downloads : Finish(t)

vars == <<chunkVars, extractVars, bookVars, concVars, estimateVars, breakVars, serverVars>>

\* ---------------------------------------------------------- specifications
\* A component that is not running keeps its state after construction.
IdleChunk ==
    /\ text = <<>> /\ chunk_size = 1 /\ overlap = 0 /\ respect_boundaries = TRUE
    /\ oracle = "words" /\ pc = "call" /\ start = 0 /\ end = 0
    /\ chunks = <<>> /\ iters = 0
IdleExtract ==
    /\ parser = NewParser /\ xpc = "feed" /\ events = <<>> /\ vocab = {}
    /\ cdata_elem = "" /\ html = <<>> /\ out = [text |-> <<>>, code_blocks |-> <<>>]
IdleBook ==
    /\ chapters_data = <<>> /\ config = [chunk_size |-> 1, overlap |-> 0,
                                         respect_boundaries |-> TRUE]
    /\ book_oracle = "words" /\ bpc = "chapters" /\ chapter_index = 0
    /\ all_chunks = <<>> /\ chunk_id = 0
IdleConc ==
    /\ calls = <<>> /\ cpc = <<>> /\ frames = <<>> /\ results = <<>>
    /\ encoder = "None" /\ overlapped = FALSE
IdleBreak ==
    /\ b_text = <<>> /\ b_target = 0 /\ b_window = SEARCH_WINDOW
    /\ fpc = "call" /\ b_result = 0
IdleEstimate ==
    /\ e_text = <<>> /\ e_start = 0 /\ e_tokens = 1 /\ e_oracle = "words"
    /\ epc = "call" /\ e_result = 0 /\ e_queries = 0
IdleServer == InitServer

\* chunk_text
Init == InitChunk /\ IdleExtract /\ IdleBook /\ IdleConc /\ IdleEstimate /\ IdleBreak
            /\ IdleServer
Next ==
    \/ Call /\ UNCHANGED <<extractVars, bookVars, concVars, estimateVars, breakVars, serverVars>>
    \/ Iterate /\ UNCHANGED <<extractVars, bookVars, concVars, estimateVars, breakVars, serverVars>>
    \/ Return /\ UNCHANGED <<extractVars, bookVars, concVars, estimateVars, breakVars, serverVars>>
Spec == Init /\ [][Next]_vars

\* TextExtractor.extract
InitX == InitExtract /\ IdleChunk /\ IdleBook /\ IdleConc /\ IdleEstimate /\ IdleBreak
            /\ IdleServer
NextX ==
    \/ StartTag /\ UNCHANGED <<chunkVars, bookVars, concVars, estimateVars, breakVars, serverVars>>
    \/ EndTag /\ UNCHANGED <<chunkVars, bookVars, concVars, estimateVars, breakVars, serverVars>>
    \/ Data /\ UNCHANGED <<chunkVars, bookVars, concVars, estimateVars, breakVars, serverVars>>
    \/ FeedReturns /\ UNCHANGED <<chunkVars, bookVars, concVars, estimateVars, breakVars, serverVars>>
    \/ ExtractText /\ UNCHANGED <<chunkVars, bookVars, concVars, estimateVars, breakVars, serverVars>>
SpecExtract == InitX /\ [][NextX]_vars

\* chunk_book
InitB == InitBook /\ IdleChunk /\ IdleExtract /\ IdleConc /\ IdleEstimate /\ IdleBreak
            /\ IdleServer
NextB ==
    \/ BookChapter /\ UNCHANGED <<chunkVars, extractVars, concVars, estimateVars, breakVars, serverVars>>
    \/ BookReturns /\ UNCHANGED <<chunkVars, extractVars, concVars, estimateVars, breakVars, serverVars>>
SpecBook == InitB /\ [][NextB]_vars

\* extract and chunk_text invocations running at once
InitC == InitConc /\ IdleChunk /\ IdleExtract /\ IdleBook /\ IdleEstimate /\ IdleBreak
            /\ IdleServer
NextC ==
    \/ (\E t \in Invocations : ExtractNew(t)) /\ UNCHANGED <<chunkVars, extractVars, bookVars, estimateVars, breakVars, serverVars>>
    \/ (\E t \in Invocations : ExtractFeed(t)) /\ UNCHANGED <<chunkVars, extractVars, bookVars, estimateVars, breakVars, serverVars>>
    \/ (\E t \in Invocations : ExtractReturn(t)) /\ UNCHANGED <<chunkVars, extractVars, bookVars, estimateVars, breakVars, serverVars>>
    \/ (\E t \in Invocations : ChunkTextCalled(t)) /\ UNCHANGED <<chunkVars, extractVars, bookVars, estimateVars, breakVars, serverVars>>
    \/ (\E t \in Invocations : ChunkTextIterate(t)) /\ UNCHANGED <<chunkVars, extractVars, bookVars, estimateVars, breakVars, serverVars>>
    \/ (\E t \in Invocations : ChunkTextReturn(t)) /\ UNCHANGED <<chunkVars, extractVars, bookVars, estimateVars, breakVars, serverVars>>
SpecConcurrent == InitC /\ [][NextC]_vars

\* _estimate_char_position
InitE == InitEstimate /\ IdleChunk /\ IdleExtract /\ IdleBook /\ IdleConc /\ IdleBreak
            /\ IdleServer
NextE == EstimateCall /\ UNCHANGED <<chunkVars, extractVars, bookVars, concVars, breakVars, serverVars>>
SpecEstimate == InitE /\ [][NextE]_vars

\* _find_break_point
InitF == InitBreak /\ IdleChunk /\ IdleExtract /\ IdleBook /\ IdleConc /\ IdleEstimate
            /\ IdleServer
NextF == FindBreakPointCall
             /\ UNCHANGED <<chunkVars, extractVars, bookVars, concVars, estimateVars, serverVars>>
SpecBreak == InitF /\ [][NextF]_vars

\* web server
InitS == InitServer /\ IdleChunk /\ IdleExtract /\ IdleBook /\ IdleConc /\ IdleEstimate
             /\ IdleBreak
OtherVars == <<chunkVars, extractVars, bookVars, concVars, estimateVars, breakVars>>
NextS ==
    \/ HandleDownload /\ UNCHANGED OtherVars
    \/ HandleCancel /\ UNCHANGED OtherVars
    \/ (\E t \in Downloads : ResetCancel(t)) /\ UNCHANGED OtherVars
    \/ (\E t \in Downloads : Report(t)) /\ UNCHANGED OtherVars
    \/ (\E t \in Downloads : PluginReturns(t)) /\ UNCHANGED OtherVars
    \/ (\E t \in Downloads : PluginRaises(t)) /\ UNCHANGED OtherVars
    \/ (\E t \in Downloads : ChapterLoop(t)) /\ UNCHANGED OtherVars
    \/ (\E t \in Downloads : Finish(t)) /\ UNCHANGED OtherVars
SpecServer == InitS /\ [][NextS]_vars

\* ------------------------------------------------- properties: chunk_text
\* Oracles that report at most one token per character.
SparseOracles == {"len4", "words", "chars", "no_kernel", "raises"}

Covered(k) ==
    \E i \in DOMAIN chunks :
        chunks[i].start_offset <= k /\ k < chunks[i].end_offset

\* C1 as claimed: for every non-empty text the chunk ranges cover
\* [0, len(text)): the first chunk starts at 0, each later chunk starts at or
\* before the previous chunk's end_offset, the last chunk ends at len(text),
\* and no chunk has end_offset <= start_offset.
C1_ChunkCoverage ==
    (pc = "done" /\ text # <<>>) =>
        /\ chunks # <<>>
        /\ chunks[1].start_offset = 0
        /\ \A i \in 2..Len(chunks) :
              chunks[i].start_offset <= chunks[i - 1].end_offset
        /\ chunks[Len(chunks)].end_offset = Len(text)
        /\ \A i \in DOMAIN chunks : chunks[i].end_offset > chunks[i].start_offset

\* C1 amended: under an oracle of at most one token per character, every
\* non-whitespace character the cursor has passed lies inside some chunk's
\* [start_offset, end_offset) (what the chunks leave uncovered is whitespace
\* only), chunks start in increasing order, and no chunk has
\* end_offset <= start_offset or ends beyond the text.
C1_NonSpaceCoverage ==
    /\ \A i \in DOMAIN chunks :
          /\ 0 <= chunks[i].start_offset
          /\ chunks[i].start_offset < chunks[i].end_offset
          /\ chunks[i].end_offset <= Len(text)
    /\ oracle \in SparseOracles =>
          /\ \A i \in 2..Len(chunks) :
                chunks[i].start_offset > chunks[i - 1].start_offset
          /\ \A k \in 0..(Min(start, Len(text)) - 1) :
                ~IsSpace(text[k + 1]) => Covered(k)
          /\ pc = "done" =>
                \A k \in 0..(Len(text) - 1) : ~IsSpace(text[k + 1]) => Covered(k)

\* C1 witness: a finished run, under such an oracle, whose consecutive chunks
\* leave a gap (of whitespace) between them.
C1_Witness ==
    /\ pc = "done"
    /\ oracle \in SparseOracles
    /\ \E i \in 2..Len(chunks) :
          chunks[i].start_offset > chunks[i - 1].end_offset

\* C2: in every loop iteration the cursor start grows by at least 1, so the
\* loop ends after at most len(text) iterations, and chunk_text never raises,
\* for every oracle and every overlap (overlap >= chunk_size included).
C2_CursorProgress ==
    /\ [][(pc = "loop" /\ pc' = "loop") => start' >= start + 1]_vars
    /\ [](iters <= Len(text) /\ pc # "raised")

\* C2 witness: a run that took len(text) iterations with overlap >= chunk_size
\* and returned.
C2_Witness ==
    /\ pc = "done"
    /\ overlap >= chunk_size
    /\ Len(text) >= 2 * CHARS_PER_TOKEN
    /\ iters = Len(text)

\* C3 as claimed: with the len//4 oracle, respect_boundaries = False and
\* 0 < 4*overlap < end - start - 1, the cursor after the slice [start, end)
\* is end - 4*overlap.
C3_OverlapStep ==
    [][(/\ pc = "loop" /\ pc' = "loop"
        /\ oracle = "len4" /\ ~respect_boundaries
        /\ 0 < CHARS_PER_TOKEN * overlap
        /\ CHARS_PER_TOKEN * overlap < end' - start - 1)
       => start' = end' - CHARS_PER_TOKEN * overlap]_vars

\* The raw estimated cut of the slice that starts where chunk c starts.
RawCut(c) == TargetEnd(text, c.start_offset, chunk_size, oracle)

\* Paragraph, sentence and word boundaries of the text: the offsets right after
\* a paragraph break, a sentence ending or a space.
Boundaries ==
    ParagraphEnds(text, 0, Len(text)) \cup SentenceEnds(text, 0, Len(text))
        \cup {k \in 1..Len(text) : text[k] = " "}

InBand(tokens, n) == 10 * tokens >= 8 * n /\ 10 * tokens <= 12 * n

\* C10 as claimed: with the len//4 oracle and respect_boundaries at its
\* default (True), every chunk has token_count within [0.8*N, 1.2*N] or is
\* the final chunk and ends at len(text).
C10_TokenBudget ==
    (oracle = "len4" /\ respect_boundaries) =>
        \A i \in DOMAIN chunks :
            \/ InBand(chunks[i].token_count, chunk_size)
            \/ (pc = "done" => i = Len(chunks)) /\ chunks[i].end_offset = Len(text)

\* C10 amended: with the len//4 oracle every chunk spans at most
\* 4*N + 250 characters (the raw cut of 4*N characters, moved by at most half
\* a search window) and has token_count at most N + 62; with
\* respect_boundaries = False every chunk either ends at len(text) or spans
\* exactly 4*N characters, with token_count at most N and within
\* [0.8*N, 1.2*N] when trimming removed at most 4*(N div 5) characters.
C10_ChunkBudget ==
    oracle = "len4" =>
        \A i \in DOMAIN chunks :
            LET c == chunks[i]
                span == c.end_offset - c.start_offset
            IN  /\ span <= CHARS_PER_TOKEN * chunk_size + SEARCH_WINDOW \div 2
                /\ c.token_count <= chunk_size + SEARCH_WINDOW \div (2 * CHARS_PER_TOKEN)
                /\ ~respect_boundaries =>
                      \/ c.end_offset = Len(text)
                      \/ /\ span = CHARS_PER_TOKEN * chunk_size
                         /\ c.token_count <= chunk_size
                         /\ (span - Len(c.content) <= CHARS_PER_TOKEN * (chunk_size \div 5))
                               => InBand(c.token_count, chunk_size)

\* C10 witness: a chunk of exactly 4*N characters and N tokens that is not the
\* last one, in a finished run.
C10_Witness ==
    /\ pc = "done" /\ oracle = "len4" /\ ~respect_boundaries
    /\ Len(chunks) >= 2
    /\ chunks[1].end_offset - chunks[1].start_offset = CHARS_PER_TOKEN * chunk_size
    /\ chunks[1].token_count = chunk_size
    /\ chunks[1].end_offset < Len(text)

\* The wirings under which the fallback answers.
FallbackWirings == {"no_kernel", "words", "raises"}

\* C11: when the plugin has no kernel, the kernel has no token plugin or
\* count_tokens raises, every token count is floor(1.3 * words) of the
\* counted text, chunk_text does not raise, and the run returns the chunks it
\* returns when the kernel simply has no token plugin.
C11_FallbackCount ==
    oracle \in FallbackWirings =>
        /\ pc # "raised"
        /\ \A i \in DOMAIN chunks :
              chunks[i].token_count = (13 * WordCount(chunks[i].content)) \div 10
        /\ pc = "done" =>
              chunks = ChunkText(text, chunk_size, overlap, respect_boundaries, "words")

\* C11 witness: a finished run whose count_tokens raises and that counted a
\* chunk of several words.
C11_Witness ==
    /\ pc = "done"
    /\ oracle = "raises"
    /\ \E i \in DOMAIN chunks : chunks[i].token_count >= 2

\* Text that is empty or consists only of whitespace.
Blank(s) == \A k \in DOMAIN s : IsSpace(s[k])

\* C12: for text that is empty or whitespace-only chunk_text never raises and
\* never emits a chunk, so it returns the empty list; appended by chunk_book,
\* the chapter's chunks leave the list and the running chunk_id as they were.
C12_BlankTextNoChunks ==
    Blank(text) =>
        /\ pc # "raised"
        /\ chunks = <<>>
        /\ \A n \in 0..1 :
              LET before == [i \in 1..n |-> [chunk_id |-> i - 1]]
                  chapter == [filename |-> "blank.html", title |-> "Blank", html |-> <<>>]
                  after == AppendChapter(before, n, n, chapter,
                               ChunkText(text, chunk_size, overlap, respect_boundaries, oracle))
              IN  after.all_chunks = before /\ after.chunk_id = n

\* C12 witness: a returned run over whitespace-only text of several slices.
C12_Witness ==
    /\ pc = "done"
    /\ text # <<>>
    /\ Blank(text)
    /\ iters >= 2
    /\ chunks = <<>>

\* ------------------------------------------------- properties: chunk_book
\* C4: the chunks of chunk_book carry chunk_id 0, 1, ..., count-1 in list
\* order (the running id equals the number of chunks so far), chapter_index
\* never decreases along the list, and each chunk's chapter_title and
\* chapter_filename are those of the input chapter at its chapter_index;
\* chapters whose text is empty or whitespace-only add no chunk and no id.
C4_DenseChunkIds ==
    /\ chunk_id = Len(all_chunks)
    /\ \A i \in DOMAIN all_chunks :
          LET c == all_chunks[i]
          IN  /\ c.chunk_id = i - 1
              /\ c.chapter_index \in 0..(Len(chapters_data) - 1)
              /\ c.chapter_title = chapters_data[c.chapter_index + 1].title
              /\ c.chapter_filename = chapters_data[c.chapter_index + 1].filename
    /\ \A i \in 2..Len(all_chunks) :
          all_chunks[i].chapter_index >= all_chunks[i - 1].chapter_index

\* C4 witness: a returned list with chunks of two chapters, several of the
\* first, and between them a chapter without text.
C4_Witness ==
    /\ bpc = "done"
    /\ Len(all_chunks) >= 3
    /\ all_chunks[1].chapter_index = 0
    /\ all_chunks[2].chapter_index = 0
    /\ all_chunks[Len(all_chunks)].chapter_index = 2
    /\ ExtractTextOnly(chapters_data[2].html) = <<>>

\* -------------------------------------------------- properties: extractor
\* C5 as claimed: extract never raises, whatever tags and text it is fed.
C5_NeverRaises == xpc # "raised"

\* The events of <pre><code class="language-L">C</code></pre>.
PreCodeDocument(L, C) ==
    << StartEvent("pre", NoAttrs), StartEvent("code", ClassAttr(LANGUAGE_PREFIX \o L)),
       DataEvent(C), EndEvent("code"), EndEvent("pre") >>

\* C6 as claimed: for a <pre> without language attribute that wraps a <code>
\* with class language-L and text C, extract returns exactly one CodeBlock,
\* with language L and code C, and the text contains the fenced block of
\* three backticks and L, C, three backticks on lines of their own.
C6_PreCodeRoundTrip ==
    \A L \in {GO}, C \in {X} :
        (xpc = "done" /\ events = PreCodeDocument(L, C)) =>
            /\ out.code_blocks = <<[language |-> L, code |-> C]>>
            /\ Contains(out.text, <<BACKTICK, BACKTICK, BACKTICK>> \o L \o <<"\n">> \o C
                                     \o <<"\n", BACKTICK, BACKTICK, BACKTICK>>)

FENCE_MARK == <<"\n", BACKTICK, BACKTICK, BACKTICK>>

\* The fenced blocks among the items written to the text stream, in order.
FencedItems(p) == SelectSeq(p.result, LAMBDA item : StartsWith(item, FENCE_MARK))

\* The language a fenced item carries: what follows the opening backticks on
\* their line.
FencedLanguage(item) ==
    LET rest == SubSeq(item, Len(FENCE_MARK) + 1, Len(item))
        line_end == SetMin({i \in 1..Len(rest) : rest[i] = "\n"} \cup {Len(rest) + 1})
    IN  SubSeq(rest, 1, line_end - 1)

\* C7: after any sequence of parser events the text stream holds as many
\* fenced blocks as code_blocks has entries, the k-th fenced block carries the
\* language (and the code) of the k-th CodeBlock, and an event that writes
\* inline code in single backticks leaves code_blocks as it was.
C7_FencesMatchBlocks ==
    /\ [](LET fenced == FencedItems(parser)
          IN  /\ Len(fenced) = Len(parser.code_blocks)
              /\ \A k \in DOMAIN fenced :
                    /\ FencedLanguage(fenced[k]) = parser.code_blocks[k].language
                    /\ fenced[k] = Fence(parser.code_blocks[k].language,
                                         parser.code_blocks[k].code))
    /\ [][(/\ Len(parser'.result) = Len(parser.result) + 1
           /\ StartsWith(parser'.result[Len(parser'.result)], <<BACKTICK>>))
          => parser'.code_blocks = parser.code_blocks]_vars

\* C7 witness: two fenced blocks of different languages have been written.
C7_Witness ==
    /\ Len(parser.code_blocks) = 2
    /\ parser.code_blocks[1].language # parser.code_blocks[2].language
    /\ Len(FencedItems(parser)) = 2

\* C8: when </code> arrives outside <pre> with trimmed buffer B: a non-empty
\* B without newline and under 100 characters is written inline between
\* single backticks and code_blocks stays; a B of 100 characters or more, or
\* with a newline, is written as a fenced block and exactly one CodeBlock
\* (of B) is appended; an empty B writes nothing.
C8_StandaloneCodeClose ==
    [][(events' = Append(events, EndEvent("code")) /\ ~parser.in_pre) =>
        LET B == Strip(Join(parser.code_buffer))
        IN  /\ (B # <<>> /\ ~Contains(B, <<"\n">>) /\ Len(B) < INLINE_LIMIT) =>
                  /\ parser'.result = Append(parser.result, <<BACKTICK>> \o B \o <<BACKTICK>>)
                  /\ parser'.code_blocks = parser.code_blocks
            /\ (Len(B) >= INLINE_LIMIT \/ Contains(B, <<"\n">>)) =>
                  /\ Len(parser'.result) = Len(parser.result) + 1
                  /\ StartsWith(parser'.result[Len(parser'.result)], FENCE_MARK)
                  /\ Contains(parser'.result[Len(parser'.result)], B)
                  /\ Len(parser'.code_blocks) = Len(parser.code_blocks) + 1
                  /\ parser'.code_blocks[Len(parser'.code_blocks)].code = B
            /\ B = <<>> =>
                  /\ parser'.result = parser.result
                  /\ parser'.code_blocks = parser.code_blocks]_vars

\* C8 witness: </code> has just closed a standalone element of exactly 100
\* characters on one line, which became a CodeBlock.
C8_Witness ==
    /\ events # <<>>
    /\ events[Len(events)] = EndEvent("code")
    /\ Len(parser.code_blocks) = 1
    /\ Len(parser.code_blocks[1].code) = INLINE_LIMIT
    /\ ~Contains(parser.code_blocks[1].code, <<"\n">>)

\* Pairs <<i, j>> of offsets of the assembled text t where a line ends with
\* the non-blank character t[i], the next non-blank line starts with t[j],
\* and between them lie only newlines, two or more.
ParagraphGaps(t) ==
    {g \in (DOMAIN t) \X (DOMAIN t) :
        /\ g[2] - g[1] >= 3
        /\ ~IsSpace(t[g[1]]) /\ ~IsSpace(t[g[2]])
        /\ \A k \in (g[1] + 1)..(g[2] - 1) : t[k] = "\n"}

\* C13 as claimed: two non-blank lines of the assembled text separated by
\* two or more newlines are separated by exactly two newlines (one blank
\* line) in the text extract returns.
C13_ParagraphBreakKept ==
    xpc = "done" =>
        LET t == GetText(parser)
        IN  \A g \in ParagraphGaps(t) :
                Contains(out.text, <<t[g[1]], "\n", "\n", t[g[2]]>>)

\* C14 as claimed: a <li> start tag in normal text mode appends the marker
\* newline, dash, space to the text stream.
C14_ListItemMarker ==
    [][(/\ events' = Append(events, StartEvent("li", NoAttrs))
        /\ ~parser.in_code /\ ~parser.skip_content)
       => parser'.result = Append(parser.result, <<"\n", "-", " ">>)]_vars

\* The language C15 names for attrs: the first prefixed class token, lowercased,
\* without its leading prefix; else data-lang, lowercased; else the first
\* class token that is a known language name, lowercased; else "".
ClaimedLanguage(attrs) ==
    LET classes == Split(attrs.class.val)
        hit == FirstPrefixed(classes)
        token == Lower(classes[hit])
        prefix == IF StartsWith(token, LANGUAGE_PREFIX) THEN LANGUAGE_PREFIX
                  ELSE IF StartsWith(token, LANG_PREFIX) THEN LANG_PREFIX
                  ELSE HIGHLIGHT_PREFIX
        known == FirstKnown(classes)
    IN  IF hit # 0 THEN SubSeq(token, Len(prefix) + 1, Len(token))
        ELSE IF attrs.data_lang.kind = "str" /\ attrs.data_lang.val # <<>>
        THEN Lower(attrs.data_lang.val)
        ELSE IF known # 0 THEN Lower(classes[known])
        ELSE <<>>

\* C15 as claimed: a start tag that opens code mode (<pre>, or <code> outside
\* <pre>) sets the language to the one the priority order names, a prefixed
\* token losing exactly its prefix.
C15_LanguagePriority ==
    [][(/\ Len(events') = Len(events) + 1
        /\ events'[Len(events')].kind = "start"
        /\ \/ events'[Len(events')].tag = "pre"
           \/ events'[Len(events')].tag = "code" /\ ~parser.in_pre
        /\ events'[Len(events')].attrs.class.kind # "none")
       => parser'.code_language = ClaimedLanguage(events'[Len(events')].attrs)]_vars

SKIPPED_TAGS == {"script", "style"}

\* Whether event i of evs lies inside a skipped element: some <script> or
\* <style> start tag before it has no script/style end tag after it before i.
InsideSkipped(evs, i) ==
    \E j \in 1..(i - 1) :
        /\ evs[j].kind = "start" /\ evs[j].tag \in SKIPPED_TAGS
        /\ \A k \in (j + 1)..(i - 1) : ~(evs[k].kind = "end" /\ evs[k].tag \in SKIPPED_TAGS)

\* The document without its script/style tags and the text inside them.
WithoutSkipped(evs) ==
    KeepWhere(evs, [i \in DOMAIN evs |->
        /\ evs[i].tag \notin SKIPPED_TAGS
        /\ ~(evs[i].kind = "data" /\ InsideSkipped(evs, i))])

\* C16: text between a <script> or <style> start tag and the next
\* script/style end tag reaches neither the text stream nor a code buffer, in
\* normal mode, inside <pre> and inside standalone <code>, and the parser
\* goes on in the mode it was in: at every point the parser is, apart from
\* the skip flag, in the state the document without its skipped elements
\* leaves it in, and extract returns that document's text and code blocks.
C16_SkippedContentDiscarded ==
    (\E i \in DOMAIN events : events[i].tag \in SKIPPED_TAGS) =>
        LET clean == WithoutSkipped(events)
            alone == Extract(clean)
        IN  /\ [parser EXCEPT !.skip_content = FALSE] = FeedFrom(NewParser, clean, 1)
            /\ xpc = "done" =>
                  out = [text |-> alone.text, code_blocks |-> alone.code_blocks]

\* C16 witness: inside <pre>, text was skipped in a <script> element, and the
\* text after its end tag went into the code block extract returned.
C16_Witness ==
    /\ xpc = "done"
    /\ Len(events) >= 6
    /\ events[1] = StartEvent("pre", NoAttrs)
    /\ events[2] = DataEvent(X)
    /\ events[3] = StartEvent("script", NoAttrs)
    /\ events[4] = DataEvent(X)
    /\ events[5] = EndEvent("script")
    /\ events[6] = EndEvent("pre")
    /\ out.code_blocks = <<[language |-> <<>>, code |-> X]>>

\* C17 as claimed: for a document without tags extract returns the
\* whitespace normalization of the document and no code blocks, and
\* extracting the returned text again returns it unchanged.
C17_PlainTextIdempotent ==
    (xpc = "done" /\ vocab = {}) =>
        /\ out.text = NormalizeWhitespace(html)
        /\ out.code_blocks = <<>>
        /\ ExtractPlain(out.text).text = out.text


\* The text delivered since the last <pre> start tag, outside script/style.
PreData(evs) ==
    LET opened == SetMax({i \in DOMAIN evs : evs[i].kind = "start" /\ evs[i].tag = "pre"})
        inside == KeepWhere(evs, [i \in DOMAIN evs |->
                      i > opened /\ evs[i].kind = "data" /\ ~InsideSkipped(evs, i)])
    IN  Join([i \in DOMAIN inside |-> inside[i].data])

\* C24: while the parser is inside <pre>, a <code> start or end tag leaves the
\* whole parser state as it was; and the </pre> that closes it appends at most
\* one CodeBlock and one fenced block, whose code is all the text delivered
\* since the <pre> start tag, trimmed (nothing when that text is blank).
C24_CodeInsidePre ==
    /\ [][(/\ parser.in_pre
           /\ Len(events') = Len(events) + 1
           /\ events'[Len(events')].tag = "code")
          => parser' = parser]_vars
    /\ [][(/\ parser.in_pre
           /\ Len(events') = Len(events) + 1
           /\ events'[Len(events')] = EndEvent("pre"))
          => LET code == Strip(PreData(events))
             IN  IF code = <<>>
                 THEN /\ parser'.code_blocks = parser.code_blocks
                      /\ parser'.result = parser.result
                 ELSE /\ parser'.code_blocks =
                             Append(parser.code_blocks,
                                    [language |-> parser.code_language, code |-> code])
                      /\ Len(parser'.result) = Len(parser.result) + 1
                      /\ Len(FencedItems(parser')) = Len(FencedItems(parser)) + 1]_vars

\* <pre>x<code>x</code></pre> has been extracted: one block, holding the text
\* before and inside the inner <code>.
C24_Witness ==
    /\ xpc = "done"
    /\ Len(events) = 6
    /\ events[1].tag = "pre" /\ events[2].kind = "data"
    /\ events[3].kind = "start" /\ events[3].tag = "code"
    /\ events[4].kind = "data"
    /\ events[5].kind = "end" /\ events[5].tag = "code"
    /\ events[6] = EndEvent("pre")
    /\ Len(out.code_blocks) = 1
    /\ out.code_blocks[1].code = events[2].data \o events[4].data


\* The characters of s that are not whitespace.
Squeeze(s) == KeepWhere(s, [i \in DOMAIN s |-> ~IsSpace(s[i])])

\* C25 as claimed: every text item with a character that is not whitespace,
\* outside script/style, is found (whitespace aside) in the returned text or
\* in the code of a returned CodeBlock.
C25_NothingDropped ==
    xpc = "done" =>
        \A i \in DOMAIN events :
            (/\ events[i].kind = "data"
             /\ Squeeze(events[i].data) # <<>>
             /\ ~InsideSkipped(events, i))
            => \/ Contains(Squeeze(out.text), Squeeze(events[i].data))
               \/ \E k \in DOMAIN out.code_blocks :
                     Contains(Squeeze(out.code_blocks[k].code), Squeeze(events[i].data))

\* C26 as claimed: an event delivered while the parser is in code mode leaves
\* the text stream as it was, unless it is the end tag that closes the code
\* element.
C26_CodeModeKeepsStream ==
    [][(/\ parser.in_code
        /\ Len(events') = Len(events) + 1
        /\ ~(events'[Len(events')].kind = "end"
             /\ events'[Len(events')].tag \in {"pre", "code"}))
       => parser'.result = parser.result]_vars


\* C30: after any sequence of events, _in_pre implies _in_code, and outside
\* code mode the code buffer is empty and the detected language is the empty
\* string: the parser is in exactly one of the modes normal, in-pre,
\* in-standalone-code.
C30_ModeInvariant ==
    /\ parser.in_pre => parser.in_code
    /\ ~parser.in_code => parser.code_buffer = <<>> /\ parser.code_language = <<>>
    /\ Cardinality({m \in {"normal", "in_pre", "in_code"} :
           \/ m = "normal" /\ ~parser.in_code /\ ~parser.in_pre
           \/ m = "in_pre" /\ parser.in_code /\ parser.in_pre
           \/ m = "in_code" /\ parser.in_code /\ ~parser.in_pre}) = 1

\* The parser is back in normal mode after a standalone <code> with a
\* language and text was closed by </pre>, an end tag that matches no start
\* tag.
C30_Witness ==
    /\ xpc = "feed"
    /\ Len(events) = 3
    /\ events[1].kind = "start" /\ events[1].tag = "code"
    /\ DetectLanguage(events[1].attrs) # <<>>
    /\ events[2].kind = "data"
    /\ events[3] = EndEvent("pre")
    /\ ~parser.in_code

\* ------------------------------------- properties: concurrent invocations
\* What the call returns when it runs alone.
RunsAlone(c) ==
    IF c.op = "extract"
    THEN LET r == Extract(c.doc) IN [text |-> r.text, code_blocks |-> r.code_blocks]
    ELSE ChunkText(c.text, c.chunk_size, c.overlap, c.respect_boundaries, c.orc)

\* C18: under every interleaving of extract and chunk_text invocations on one
\* plugin instance, the parser of a running extract is the parser that feeding
\* its own events alone gives, the chunk list of a running chunk_text holds
\* chunks of its own text only, and every invocation returns what it returns
\* when it runs alone.
C18_NoInterference ==
    \A t \in Invocations :
        /\ (cpc[t] = "run" /\ calls[t].op = "extract") =>
              frames[t].parser =
                  FeedFrom(NewParser, SubSeq(calls[t].doc, 1, frames[t].fed), 1)
        /\ (cpc[t] = "run" /\ calls[t].op = "chunk_text") =>
              frames[t].chunks =
                  SubSeq(RunsAlone(calls[t]), 1, Len(frames[t].chunks))
        /\ cpc[t] = "done" => results[t] = RunsAlone(calls[t])

\* An extract and a chunk_text that ran at the same time have both returned,
\* a code block and several chunks.
C18_Witness ==
    \E t, u \in Invocations :
        /\ overlapped
        /\ calls[t].op = "extract" /\ cpc[t] = "done"
        /\ results[t].code_blocks # <<>>
        /\ calls[u].op = "chunk_text" /\ cpc[u] = "done"
        /\ Len(results[u]) > 1
        /\ encoder # "None"


\* C20 as claimed: the returned text contains, for every code block returned,
\* the fence of its language and its code, character for character.
C20_FenceVerbatim ==
    xpc = "done" =>
        \A k \in DOMAIN out.code_blocks :
            LET b == out.code_blocks[k]
            IN  Contains(out.text, <<BACKTICK, BACKTICK, BACKTICK>> \o b.language \o <<"\n">>
                                       \o b.code \o <<"\n", BACKTICK, BACKTICK, BACKTICK>>)

\* ------------------------------------------ properties: chunk records
\* The boundary search of the slice that starts at `from` returns a position
\* that is not after `from`.
DegenerateSearch(from) ==
    LET target_end == TargetEnd(text, from, chunk_size, oracle)
    IN  /\ respect_boundaries
        /\ target_end < Len(text)
        /\ FindBreakPoint(text, target_end, SEARCH_WINDOW) <= from

\* C19: every chunk record has 0 <= start_offset < end_offset <= len(text),
\* its content is not empty and is text[start_offset:end_offset] stripped, its
\* token_count is the oracle's count of that content; and an iteration whose
\* boundary search returns a position not after start ends its slice at the
\* raw candidate end.
C19_ChunkRecords ==
    /\ [](\A k \in DOMAIN chunks :
            LET c == chunks[k]
            IN  /\ 0 <= c.start_offset
                /\ c.start_offset < c.end_offset
                /\ c.end_offset <= Len(text)
                /\ c.content # <<>>
                /\ c.content = Strip(PySlice(text, c.start_offset, c.end_offset))
                /\ c.token_count = GetTokenCount(oracle, c.content))
    /\ [][(pc = "loop" /\ pc' = "loop" /\ DegenerateSearch(start))
            => end' = TargetEnd(text, start, chunk_size, oracle)]_vars

\* A record whose content is shorter than its slice and whose count differs
\* from the count of the slice, emitted by an iteration whose boundary search
\* returned a position not after its start.
C19_Witness ==
    \E k \in DOMAIN chunks :
        LET c == chunks[k]
        IN  /\ DegenerateSearch(c.start_offset)
            /\ c.start_offset > 0
            /\ Len(c.content) < c.end_offset - c.start_offset
            /\ c.token_count # GetTokenCount(oracle, PySlice(text, c.start_offset, c.end_offset))

\* ---------------------------------- properties: _estimate_char_position
\* The tokens measured in text[start:start + 4n].
Measured == GetTokenCount(e_oracle, PySlice(e_text, e_start, e_start + e_tokens * CHARS_PER_TOKEN))
InBandMeasure == 10 * Measured >= 8 * e_tokens /\ 10 * Measured <= 12 * e_tokens
ExactScaled == ScaledCharsExact(e_tokens * CHARS_PER_TOKEN, e_tokens, Max(Measured, 1))
DividesEvenly == (e_tokens * CHARS_PER_TOKEN * e_tokens) % Max(Measured, 1) = 0

\* C21 as claimed: out of the band the result is
\* min(len(text), start + floor(4n * n / max(a, 1))).
C21_EstimateFloor ==
    epc = "done" =>
        /\ e_queries <= 1
        /\ e_result <= Len(e_text)
        /\ IF e_start + e_tokens * CHARS_PER_TOKEN >= Len(e_text)
           THEN e_result = Len(e_text)
           ELSE IF InBandMeasure
           THEN e_result = Min(Len(e_text), e_start + e_tokens * CHARS_PER_TOKEN)
           ELSE e_result = Min(Len(e_text), e_start + ExactScaled)

\* C21, amended: with n >= 1 and start >= 0 the estimate asks the oracle at
\* most once, is never greater than len(text), is len(text) when
\* start + 4n >= len(text), is min(len(text), start + 4n) when the measured
\* count a is within 0.8n..1.2n, and otherwise is min(len(text), start + k)
\* where k = int(4n * (n / max(a, 1))) in float arithmetic: k is
\* floor(4n * n / max(a, 1)), or one less when max(a, 1) divides 4n * n and
\* the float product falls short of the quotient.
C21_EstimateFloat ==
    epc = "done" =>
        /\ e_queries <= 1
        /\ e_result <= Len(e_text)
        /\ IF e_start + e_tokens * CHARS_PER_TOKEN >= Len(e_text)
           THEN e_result = Len(e_text) /\ e_queries = 0
           ELSE IF InBandMeasure
           THEN e_result = Min(Len(e_text), e_start + e_tokens * CHARS_PER_TOKEN)
           ELSE \/ e_result = Min(Len(e_text), e_start + ExactScaled)
                \/ /\ DividesEvenly
                   /\ e_result = Min(Len(e_text), e_start + ExactScaled - 1)

\* The budget 117 against 54 measured tokens: 1013, one less than the quotient.
C21_Witness ==
    /\ epc = "done"
    /\ e_queries = 1
    /\ ~InBandMeasure
    /\ e_result = e_start + ExactScaled - 1
    /\ e_result < Len(e_text)

\* -------------------------------------- properties: _find_break_point
WindowStart == Max(0, b_target - b_window)
WindowEnd == Min(Len(b_text), b_target + b_window \div 2)

\* Ends of the paragraph breaks of the window that lie at or after
\* target_pos minus half the window.
ClaimedParagraphs ==
    {e \in ParagraphEnds(b_text, WindowStart, WindowEnd) : e >= b_target - b_window \div 2}

\* C22 as claimed: when the window holds a paragraph break that ends at or
\* after target_pos - search_window/2, the end of the first such break is
\* returned.
C22_FirstParagraphBreak ==
    (fpc = "done" /\ ClaimedParagraphs # {}) => b_result = SetMin(ClaimedParagraphs)

\* The paragraph breaks the code accepts: in the window, at or after half a
\* window past the window start.
AcceptedParagraphs ==
    {e \in ParagraphEnds(b_text, WindowStart, WindowEnd) :
        WindowStart + b_window \div 2 <= e}
\* Ends of the sentence endings of the window at or before
\* target_pos + search_window/4.
ClaimedSentences ==
    {e \in SentenceEnds(b_text, WindowStart, WindowEnd) : e <= b_target + b_window \div 4}
\* Offsets of the spaces from the window start (inclusive) to target_pos + 50.
ClaimedSpaces ==
    {k \in WindowStart..(Min(Len(b_text), b_target + SPACE_LOOKAHEAD) - 1) : b_text[k + 1] = " "}

\* C23 as claimed: with no paragraph break accepted, the last sentence ending
\* at or before target_pos + search_window/4 is returned; with none, the
\* position after the last space between the window start (inclusive) and
\* target_pos + 50; with none, target_pos.
C23_BreakPriority ==
    (fpc = "done" /\ AcceptedParagraphs = {}) =>
        b_result = IF ClaimedSentences # {} THEN SetMax(ClaimedSentences)
                   ELSE IF ClaimedSpaces # {} THEN SetMax(ClaimedSpaces) + 1
                   ELSE b_target

\* C27 as claimed: the position returned lies in
\* [max(0, target_pos - w), min(len(text), target_pos + w/2)].
C27_ResultInWindow ==
    fpc = "done" => WindowStart <= b_result /\ b_result <= WindowEnd


\* ------------------------------------------------- properties: web server
\* C28 as claimed: at most one download thread runs at any time, and a
\* download request that arrives while one runs is answered with 409 and
\* starts no thread.
C28_OneDownload ==
    /\ [](Cardinality({t \in Downloads : Running(t)}) <= 1)
    /\ [][(/\ \E t \in Downloads : Running(t)
           /\ reply' # reply
           /\ reply'.to = "download"
           /\ reply'.code # 400)
          => reply'.code = 409 /\ downloads' = downloads]_vars

\* POST /api/cancel has just been answered with success while thread t runs.
CancelAnswered(t) == reply = Reply("cancel", 200, TRUE) /\ Running(t)

\* C29 as claimed, for the step that ends a download: once POST /api/cancel
\* was answered with success while the download runs, the download never
\* reports status "completed".
C29_CancelEndsDownload ==
    [][\A t \in Downloads :
          CancelAnswered(t) => downloads'[t].final # "completed"]_vars
====
